---- MODULE Spec2Model ----
(***************************************************************************)
(* zing-stats: the paginated ingestion of Gerrit changes                   *)
(* (zingstats/changes.py, GerritChanges.gather) and the per-change         *)
(* aggregation of zingstats/zing_stats.py (parse_change).                  *)
(*                                                                         *)
(* Timestamps are naturals, ordered as datetimes are.  The backend holds a *)
(* list of raw changes (stream), most recently updated first as Gerrit     *)
(* serves them, and answers GET /changes/?start=S&n=N with the raw changes *)
(* S+1..S+N of it, the last one carrying _more_changes when the list goes  *)
(* on (Gerrit's REST contract, as mocked page by page in                   *)
(* tests/test_changes.py).  The same long_id may occur more than once in   *)
(* the stream: that is the pagination overlap gather warns about.          *)
(***************************************************************************)
EXTENDS Integers, Sequences, FiniteSets, TLC

\* ------------------------------------------------------------------ bounds
MaxStream == 2      \* raw changes the backend holds; also the largest n
MaxDt == 1          \* timestamps are 0..MaxDt
MaxParsed == 2      \* changes one parse_change_stats call goes through
MaxMessages == 1    \* messages of a change
MaxPrPages == 2     \* pages of one project's PR listing
MaxPrs == 1         \* ids of the PRs of a project; also the longest page
MaxCiChanges == 1   \* changes one parse_ci_stats call goes through
MaxCiMessages == 2  \* messages one parse_ci_stats call goes through
MaxNum == 3         \* the hours, minutes and seconds of a job are 1..MaxNum

Ids == 1..MaxStream
Times == 0..MaxDt
Projects == {"p1", "p2"}
Branches == {"b1", "b2"}
ProjectFilters == {{}, {"p1"}}
BranchFilters == {{}, {"b1"}}
QuerySizes == 1..MaxStream
MaxChangesValues == 0..MaxStream    \* 0 stands for None: both are falsy at line 113

\* A raw change as the backend holds it (the fields gather reads).
RawChange == [id : Ids, project : Projects, branch : Branches, updated : Times]

RECURSIVE SeqsUpTo(_, _)
SeqsUpTo(S, n) ==
    IF n = 0 THEN {<< >>}
    ELSE LET shorter == SeqsUpTo(S, n - 1)
         IN  shorter \cup {Append(s, x) : s \in {t \in shorter : Len(t) = n - 1}, x \in S}

Min(a, b) == IF a < b THEN a ELSE b

\* gather compares long_ids for equality only, so the streams are taken up to
\* a renaming of the ids: each new id is the smallest one not used before.
FirstUse(s) ==
    \A k \in 1..Len(s) :
        \/ s[k].id = 1
        \/ \E j \in 1..(k - 1) : s[j].id >= s[k].id - 1

\* Gerrit serves the changes of a query most recently updated first.
NonIncreasing(s) == \A k \in 1..(Len(s) - 1) : s[k].updated >= s[k + 1].updated

Streams == {s \in SeqsUpTo(RawChange, MaxStream) : FirstUse(s) /\ NonIncreasing(s)}

\* ------------------------------------------------------------------- state
VARIABLES
    stream,         \* backend: the raw changes matching the query, in serving order
    projects,       \* Changes.projects
    branches,       \* Changes.branches
    start_dt,       \* Changes.start_dt
    query_size,     \* GerritChanges.query_size
    max_changes,    \* GerritChanges.max_changes (0: None)
    query_start,    \* Changes.query_start
    changes,        \* Changes.changes: long_id -> GerritChange
    results,        \* gather's local: the decoded page
    idx,            \* position of the for loop in results
    pc,             \* where gather is
    error,          \* the exception that left gather, if any
    requests,       \* the 'start' parameters of the GETs issued so far
    change_json,    \* <<the raw change the last change was built from>>
    cur_change,     \* parse_change: <<the change it was last given>>
    cur_message,    \* parse_change: <<the text of the message it last took>>
    created,        \* parse_change_stats: created
    updated,        \* parse_change_stats: updated
    merged,         \* parse_change_stats: merged
    revisions,      \* parse_change_stats: revisions
    lifespan_sec,   \* parse_change_stats: lifespan_sec
    recheck,        \* parse_change_stats: recheck
    reverify,       \* parse_change_stats: reverify
    nparsed,        \* changes the for loop of parse_change_stats has taken
    nmessages,      \* messages of the change parse_change has gone through
    stats_pc,       \* where parse_change_stats is
    stats_error,    \* the exception that left parse_change_stats, if any
    projects_github, \* gather_github_prs: the names of the github projects
    prs,            \* gather_github_prs: project -> (PR id -> PR)
    not_found_proj, \* gather_github_prs: the projects that answered 404
    total_prs,      \* gather_github_prs: total_prs
    project_no,     \* position of the for loop in projects_github
    page_no,        \* pages of the current project requested so far
    status_code,    \* response.status_code of the last listing request (0: none)
    project_finished,   \* gather_github_prs: project_finished
    prs_pc,         \* where gather_github_prs is
    parser_text,    \* parser: the text of the message given to the parser
    run,            \* parser: << >> for the empty dict, <<the run>> otherwise
    parser_error,   \* parser: the exception that left the parser, if any
    promotion_succeeded,    \* parser: parse_promotion_success matched
    promotion_failed,       \* parser: parse_promotion_failure matched
    parser_pc,      \* parser: the function that was called last
    ci_kind,        \* "gerrit": parse_ci_stats, "github": parse_pr_ci_stats
    ci_total_time_sec,      \* parse_ci_stats: ci_total_time_sec
    ci_longest_time_sec,    \* parse_ci_stats: ci_longest_time_sec
    ci_success,     \* parse_ci_stats: ci_success
    ci_failure,     \* parse_ci_stats: ci_failure
    promotion_success,      \* parse_ci_stats: promotion_success
    promotion_failure,      \* parse_ci_stats: promotion_failure
    ci_change,      \* <<the change or PR the outer loop is on>>
    ci_message,     \* <<the message or comment the loop body last took>>
    ci_nchanges,    \* changes the outer loop has taken
    ci_nmessages,   \* messages the inner loop has taken, over all changes
    ci_pc,          \* where parse_ci_stats is
    ci_error,       \* the exception that left parse_ci_stats, if any
    raw_change,     \* GerritChange.__init__: <<the raw change given>>
    change_revisions, \* GerritChange.__init__: self._revisions, by revision number
    rev_no,         \* raw revisions the first loop has taken
    msg_no,         \* raw messages the second loop has taken
    change_pc,      \* where GerritChange.__init__ is
    change_error,   \* the exception that left GerritChange.__init__, if any
    main_gerrit,    \* main: the long_ids Gerrit lists, one change a page
    main_github,    \* main: the pages GitHub lists for the project, one PR a page
    gerrit_changes, \* main: gerrit_changes, by long_id
    github_prs,     \* main: github_prs[project], by PR id
    main_requests,  \* the requests issued so far, by what they ask for
    in_flight,      \* the requests issued and not yet answered
    main_no,        \* pages the listing loop has taken
    main_taken,     \* ids the aggregation loop has taken
    main_pr,        \* the PR parse_pr is on (0: none)
    main_parsed,    \* entities the aggregation has gone through
    main_pc         \* where main is

gatherVars == <<stream, projects, branches, start_dt, query_size, max_changes,
                query_start, changes, results, idx, pc, error, requests>>

statsVars == <<change_json, cur_change, cur_message, created, updated, merged, revisions, lifespan_sec,
               recheck, reverify, nparsed, nmessages, stats_pc, stats_error>>

prsVars == <<projects_github, prs, not_found_proj, total_prs, project_no,
             page_no, status_code, project_finished, prs_pc>>

parserVars == <<parser_text, run, parser_error, promotion_succeeded, promotion_failed,
                parser_pc>>

ciVars == <<ci_kind, ci_total_time_sec, ci_longest_time_sec, ci_success,
            ci_failure, promotion_success, promotion_failure, ci_change,
            ci_message, ci_nchanges, ci_nmessages, ci_pc, ci_error>>

changeVars == <<raw_change, change_revisions, rev_no, msg_no, change_pc, change_error>>

mainVars == <<main_gerrit, main_github, gerrit_changes, github_prs, main_requests, in_flight, main_no, main_taken, main_pr, main_parsed, main_pc>>

vars == <<gatherVars, statsVars, prsVars, parserVars, ciVars, changeVars, mainVars>>

\* What an operation leaves alone: the state of the other operations.
outsideGather == <<statsVars, prsVars, parserVars, ciVars, changeVars, mainVars>>

outsideStats == <<gatherVars, prsVars, parserVars, ciVars, changeVars, mainVars>>

outsidePrs == <<gatherVars, statsVars, parserVars, ciVars, changeVars, mainVars>>

outsideParser == <<gatherVars, statsVars, prsVars, ciVars, changeVars, mainVars>>

outsideCi == <<gatherVars, statsVars, prsVars, parserVars, changeVars, mainVars>>

\* ----------------------------------------------------------------- backend
\* GET /changes/?start=S&n=N: the raw changes S+1..S+N, the last one flagged
\* _more_changes when more follow.
BackendPage(s, start, n) ==
    LET last == Min(start + n, Len(s))
    IN  [k \in 1..(IF last > start THEN last - start ELSE 0) |->
            [id |-> s[start + k].id,
             project |-> s[start + k].project,
             branch |-> s[start + k].branch,
             updated |-> s[start + k].updated,
             more_changes |-> (start + k = last /\ last < Len(s))]]

\* ------------------------------------------------------------------ gather
\* GerritChange.__init__, the fields gather uses.
GerritChange(raw) ==
    [long_id |-> raw.id,
     project |-> raw.project,
     branch |-> raw.branch,
     updated_dt |-> raw.updated]

\* Changes.add: self.changes[change.long_id] = change
Add(chs, change) ==
    [k \in (DOMAIN chs) \cup {change.long_id} |->
        IF k = change.long_id THEN change ELSE chs[k]]

\* Changes.__len__
ChangesLen(chs) == Cardinality(DOMAIN chs)

ProjectSkippedWhenEmpty(change) == change.project \notin projects

\* line 97: self.projects and change.project not in self.projects
ProjectSkipped(change) == projects # {} /\ change.project \notin projects

\* line 102: self.branches and change.branch not in self.branches
BranchSkipped(change) == branches # {} /\ change.branch \notin branches

NeverAlreadyStored(change) == FALSE

\* line 107: change.long_id in self.changes
AlreadyStored(change) == change.long_id \in DOMAIN changes

CapIgnored == FALSE

CapReachedLate == max_changes # 0 /\ ChangesLen(changes) > max_changes

\* line 113: self.max_changes and len(self.changes) >= self.max_changes
CapReached == max_changes # 0 /\ ChangesLen(changes) >= max_changes

TooOldOrEqual(change) == change.updated_dt <= start_dt

\* line 119: change.updated_dt < self.start_dt
TooOld(change) == change.updated_dt < start_dt

\* results[-1].pop('_more_changes', None)
PopMoreChanges(res) == [res EXCEPT ![Len(res)].more_changes = FALSE]

Current == GerritChange(results[idx])

config == <<stream, projects, branches, start_dt, query_size, max_changes>>

\* the for loop stays on its item
NextItemStays ==
    /\ idx' = idx
    /\ pc' = "scan"

\* The for loop moves to the next item, or is exhausted.
NextItem ==
    /\ idx' = idx + 1
    /\ pc' = IF idx + 1 > Len(results) THEN "endpage" ELSE "scan"

\* No change is being constructed.
ChangeIdle ==
    /\ raw_change = << >> /\ change_revisions = << >>
    /\ rev_no = 0 /\ msg_no = 0
    /\ change_pc = "idle" /\ change_error = "none"

\* main is not running.
MainIdle ==
    /\ main_gerrit = << >> /\ main_github = << >>
    /\ gerrit_changes = << >> /\ github_prs = << >>
    /\ main_requests = << >> /\ in_flight = 0
    /\ main_no = 0 /\ main_taken = {} /\ main_pr = 0 /\ main_parsed = 0
    /\ main_pc = "idle"

\* Nothing is being aggregated.
StatsIdle ==
    /\ change_json = << >>
    /\ cur_change = << >>
    /\ cur_message = << >>
    /\ created = << >> /\ updated = << >> /\ merged = << >>
    /\ revisions = << >> /\ lifespan_sec = << >>
    /\ recheck = << >> /\ reverify = << >>
    /\ nparsed = 0
    /\ nmessages = 0
    /\ stats_pc = "idle"
    /\ stats_error = "none"

\* No PR is being gathered.
PrsIdle ==
    /\ projects_github = << >> /\ prs = << >> /\ not_found_proj = << >>
    /\ total_prs = 0 /\ project_no = 1 /\ page_no = 0 /\ status_code = 0
    /\ project_finished = FALSE
    /\ prs_pc = "idle"

\* No text is being parsed.
ParserIdle ==
    /\ parser_text = << >> /\ run = << >> /\ parser_error = "none"
    /\ promotion_succeeded = FALSE /\ promotion_failed = FALSE
    /\ parser_pc = "idle"

\* No CI run is being aggregated.
CiIdle ==
    /\ ci_kind = "none"
    /\ ci_total_time_sec = << >> /\ ci_longest_time_sec = << >>
    /\ ci_success = << >> /\ ci_failure = << >>
    /\ promotion_success = << >> /\ promotion_failure = << >>
    /\ ci_change = << >> /\ ci_message = << >>
    /\ ci_nchanges = 0 /\ ci_nmessages = 0
    /\ ci_pc = "idle" /\ ci_error = "none"

Init ==
    /\ MainIdle
    /\ ChangeIdle
    /\ StatsIdle
    /\ PrsIdle
    /\ ParserIdle
    /\ CiIdle
    /\ stream \in Streams
    /\ projects \in ProjectFilters
    /\ branches \in BranchFilters
    /\ start_dt \in Times
    /\ query_size \in QuerySizes
    /\ max_changes \in MaxChangesValues
    /\ query_start = 0
    /\ changes = << >>
    /\ results = << >>
    /\ idx = 1
    /\ pc = "request"
    /\ error = "none"
    /\ requests = << >>

\* lines 78-90: one GET, decoded.  The for loop starts on the decoded page.
Request ==
    /\ pc = "request"
    /\ requests' = Append(requests, query_start)
    /\ results' = BackendPage(stream, query_start, query_size)
    /\ idx' = 1
    /\ pc' = IF Len(results') = 0 THEN "endpage" ELSE "scan"
    /\ UNCHANGED outsideGather
    /\ UNCHANGED <<config, query_start, changes, error>>

RequestUndecodableRetried ==
    /\ pc = "request"
    /\ Len(requests) < MaxStream
    /\ requests' = Append(requests, query_start)
    /\ UNCHANGED outsideGather
    /\ UNCHANGED <<config, query_start, changes, results, idx, pc, error>>

\* lines 86-89: the response body does not decode: json.loads raises.
RequestUndecodable ==
    /\ pc = "request"
    /\ requests' = Append(requests, query_start)
    /\ pc' = "error"
    /\ error' = "ValueError"
    /\ UNCHANGED outsideGather
    /\ UNCHANGED <<config, query_start, changes, results, idx>>

\* lines 97-100
SkipProject ==
    /\ pc = "scan"
    /\ ProjectSkipped(Current)
    /\ NextItem
    /\ UNCHANGED outsideGather
    /\ UNCHANGED <<config, query_start, changes, results, error, requests>>

\* lines 102-105
SkipBranch ==
    /\ pc = "scan"
    /\ ~ProjectSkipped(Current)
    /\ BranchSkipped(Current)
    /\ NextItem
    /\ UNCHANGED outsideGather
    /\ UNCHANGED <<config, query_start, changes, results, error, requests>>

\* lines 107-111
SkipDuplicate ==
    /\ pc = "scan"
    /\ ~ProjectSkipped(Current)
    /\ ~BranchSkipped(Current)
    /\ AlreadyStored(Current)
    /\ NextItem
    /\ UNCHANGED outsideGather
    /\ UNCHANGED <<config, query_start, changes, results, error, requests>>

\* lines 113-117
StopAtCap ==
    /\ pc = "scan"
    /\ ~ProjectSkipped(Current)
    /\ ~BranchSkipped(Current)
    /\ ~AlreadyStored(Current)
    /\ CapReached
    /\ results' = PopMoreChanges(results)
    /\ pc' = "endpage"
    /\ UNCHANGED outsideGather
    /\ UNCHANGED <<config, query_start, changes, idx, error, requests>>

StopAtCutoffKeepsFlag ==
    /\ pc = "scan"
    /\ ~ProjectSkipped(Current)
    /\ ~BranchSkipped(Current)
    /\ ~AlreadyStored(Current)
    /\ ~CapReached
    /\ TooOld(Current)
    /\ pc' = "endpage"
    /\ UNCHANGED outsideGather
    /\ UNCHANGED <<config, query_start, changes, results, idx, error, requests>>

\* lines 119-123
StopAtCutoff ==
    /\ pc = "scan"
    /\ ~ProjectSkipped(Current)
    /\ ~BranchSkipped(Current)
    /\ ~AlreadyStored(Current)
    /\ ~CapReached
    /\ TooOld(Current)
    /\ results' = PopMoreChanges(results)
    /\ pc' = "endpage"
    /\ UNCHANGED outsideGather
    /\ UNCHANGED <<config, query_start, changes, idx, error, requests>>

\* line 125
Store ==
    /\ pc = "scan"
    /\ ~ProjectSkipped(Current)
    /\ ~BranchSkipped(Current)
    /\ ~AlreadyStored(Current)
    /\ ~CapReached
    /\ ~TooOld(Current)
    /\ changes' = Add(changes, Current)
    /\ NextItem
    /\ UNCHANGED outsideGather
    /\ UNCHANGED <<config, query_start, results, error, requests>>

EndOfPageNoAdvance ==
    /\ pc = "endpage"
    /\ IF Len(results) = 0
       THEN pc' = "error" /\ error' = "IndexError"
       ELSE /\ pc' = IF results[Len(results)].more_changes THEN "request" ELSE "done"
            /\ UNCHANGED error
    /\ UNCHANGED outsideGather
    /\ UNCHANGED <<config, query_start, changes, results, idx, requests>>

\* lines 127, 75, 129: the offset advances, then the while test reads
\* results[-1], which raises IndexError on an empty page.
EndOfPage ==
    /\ pc = "endpage"
    /\ query_start' = query_start + query_size
    /\ IF Len(results) = 0
       THEN pc' = "error" /\ error' = "IndexError"
       ELSE /\ pc' = IF results[Len(results)].more_changes THEN "request" ELSE "done"
            /\ UNCHANGED error
    /\ UNCHANGED outsideGather
    /\ UNCHANGED <<config, changes, results, idx, requests>>

Next ==
    \/ Request
    \/ RequestUndecodable
    \/ SkipProject
    \/ SkipBranch
    \/ SkipDuplicate
    \/ StopAtCap
    \/ StopAtCutoff
    \/ Store
    \/ EndOfPage

Spec == Init /\ [][Next]_vars

\* ------------------------------------------------------------- aggregation
\* parse_change_stats over the changes of one project, change by change and,
\* for a change counted as merged, message by message.  An optional value is
\* << >> (the key is absent, the attribute is None) or <<value>>.
Statuses == {"NEW", "MERGED"}
RevisionCounts == {1, 2}    \* the revisions a change has
Texts == {"Patch Set 1: Code-Review+2", "Recheck", "reverify", "recheck, reverify"}

\* A raw change as Gerrit sends it: 'submitted' comes with merged changes
\* only, and not with all of them (the changes of a renamed project come
\* without); created <= submitted <= updated.
RawStatsChange ==
    {c \in [status : Statuses, created : Times, updated : Times,
            submitted : {<< >>} \cup {<<t>> : t \in Times},
            revisions : RevisionCounts] :
        /\ c.created <= c.updated
        /\ c.submitted # << >> =>
            (c.status = "MERGED" /\ c.created <= c.submitted[1]
                                 /\ c.submitted[1] <= c.updated)}

\* GerritChange.__init__: merged_dt stays None (line 149) without 'submitted'
GerritChangeInit(raw) ==
    [status |-> raw.status,
     created_dt |-> raw.created,
     updated_dt |-> raw.updated,
     merged_dt |-> raw.submitted,
     rev_count |-> raw.revisions]

\* d[k] += 1 on a defaultdict(int)
Incr(d, k) ==
    [x \in (DOMAIN d) \cup {k} |->
        IF x = k THEN (IF k \in DOMAIN d THEN d[k] ELSE 0) + 1 ELSE d[x]]

\* d[k] = v
Put(d, k, v) == [x \in (DOMAIN d) \cup {k} |-> IF x = k THEN v ELSE d[x]]

RecheckWithoutReverify(text) == text \in {"Recheck"}

\* 'recheck' in message.text.lower()
HasRecheck(text) == text \in {"Recheck", "recheck, reverify"}

\* 'reverify' in message.text.lower()
HasReverify(text) == text \in {"reverify", "recheck, reverify"}

\* line 494: None >= start_dt raises TypeError (a datetime is compared to
\* datetimes only)
MergedComparisonRaises(c) == c.status = "MERGED" /\ c.merged_dt = << >>

\* the status alone, the merged timestamp not compared with start_dt
CountsAsMergedWhenever(c) == c.status = "MERGED"

\* line 494
CountsAsMerged(c) == c.status = "MERGED" /\ c.merged_dt[1] >= start_dt

CreatedStrictlyAfter(c) ==
    IF c.created_dt > start_dt THEN Incr(created, c.created_dt) ELSE created

\* lines 487-489
CreatedAfter(c) ==
    IF c.created_dt >= start_dt THEN Incr(created, c.created_dt) ELSE created

\* lines 490-492
UpdatedAfter(c) ==
    IF c.updated_dt >= start_dt THEN Incr(updated, c.updated_dt) ELSE updated

GatherIdle ==
    /\ stream = << >> /\ projects = {} /\ branches = {}
    /\ query_size = 1 /\ max_changes = 0 /\ query_start = 0
    /\ changes = << >> /\ results = << >> /\ idx = 1
    /\ pc = "idle" /\ error = "none" /\ requests = << >>

StatsInit ==
    /\ MainIdle
    /\ ChangeIdle
    /\ GatherIdle
    /\ PrsIdle
    /\ ParserIdle
    /\ CiIdle
    /\ start_dt \in Times
    /\ change_json = << >>
    /\ cur_change = << >>
    /\ cur_message = << >>
    /\ created = << >> /\ updated = << >> /\ merged = << >>
    /\ revisions = << >> /\ lifespan_sec = << >>
    /\ recheck = << >> /\ reverify = << >>
    /\ nparsed = 0
    /\ nmessages = 0
    /\ stats_pc = "loop"
    /\ stats_error = "none"

\* parse_change, lines 483-501, for the next change of the collection: a
\* change counted as merged goes on to its messages, any other is done with.
ParseChange(raw) ==
    LET c == GerritChangeInit(raw) IN
    /\ stats_pc = "loop"
    /\ nparsed < MaxParsed
    /\ ~MergedComparisonRaises(c)
    /\ change_json' = <<raw>>
    /\ cur_change' = <<c>>
    /\ cur_message' = << >>
    /\ nparsed' = nparsed + 1
    /\ nmessages' = 0
    /\ created' = CreatedAfter(c)
    /\ updated' = UpdatedAfter(c)
    /\ IF CountsAsMerged(c)
       THEN /\ merged' = Incr(merged, c.merged_dt[1])
            /\ revisions' = Put(revisions, c.merged_dt[1], c.rev_count)
            /\ lifespan_sec' = Put(lifespan_sec, c.merged_dt[1],
                                   c.merged_dt[1] - c.created_dt)
            /\ stats_pc' = "messages"
       ELSE UNCHANGED <<merged, revisions, lifespan_sec, stats_pc>>
    /\ UNCHANGED <<recheck, reverify, stats_error>>
    /\ UNCHANGED outsideStats

\* parse_change up to line 494, where the comparison raises
ParseChangeRaises(raw) ==
    LET c == GerritChangeInit(raw) IN
    /\ stats_pc = "loop"
    /\ nparsed < MaxParsed
    /\ MergedComparisonRaises(c)
    /\ change_json' = <<raw>>
    /\ cur_change' = <<c>>
    /\ cur_message' = << >>
    /\ nparsed' = nparsed + 1
    /\ nmessages' = 0
    /\ created' = CreatedAfter(c)
    /\ updated' = UpdatedAfter(c)
    /\ stats_pc' = "error"
    /\ stats_error' = "TypeError"
    /\ UNCHANGED <<merged, revisions, lifespan_sec, recheck, reverify>>
    /\ UNCHANGED outsideStats

\* lines 503-514 for the next message of the change
ParseMessage(text) ==
    /\ stats_pc = "messages"
    /\ nmessages < MaxMessages
    /\ nmessages' = nmessages + 1
    /\ cur_message' = <<text>>
    /\ IF HasRecheck(text)
       THEN /\ recheck' = Incr(recheck, cur_change[1].merged_dt[1])
            /\ UNCHANGED reverify
       ELSE IF HasReverify(text)
       THEN /\ reverify' = Incr(reverify, cur_change[1].merged_dt[1])
            /\ UNCHANGED recheck
       ELSE UNCHANGED <<recheck, reverify>>
    /\ UNCHANGED <<change_json, cur_change, created, updated, merged,
                   revisions, lifespan_sec,
                   nparsed, stats_pc, stats_error>>
    /\ UNCHANGED outsideStats

\* lines 503-504: no revision, no message is left: parse_change returns
ParseChangeReturns ==
    /\ stats_pc = "messages"
    /\ stats_pc' = "loop"
    /\ cur_message' = << >>
    /\ UNCHANGED <<change_json, cur_change, created, updated,
                   merged, revisions, lifespan_sec,
                   recheck, reverify, nparsed, nmessages, stats_error>>
    /\ UNCHANGED outsideStats

ParseNextChange == \E raw \in RawStatsChange : ParseChange(raw)

ParseNextChangeRaises == \E raw \in RawStatsChange : ParseChangeRaises(raw)

ParseNextMessage == \E text \in Texts : ParseMessage(text)

\* lines 462-480: the for loop is over, the DataFrame is built
ParseChangeStatsReturns ==
    /\ stats_pc = "loop"
    /\ stats_pc' = "done"
    /\ UNCHANGED <<change_json, cur_change, cur_message, created, updated,
                   merged, revisions, lifespan_sec,
                   recheck, reverify, nparsed, nmessages, stats_error>>
    /\ UNCHANGED outsideStats

StatsNext ==
    \/ ParseNextChange
    \/ ParseNextChangeRaises
    \/ ParseNextMessage
    \/ ParseChangeReturns
    \/ ParseChangeStatsReturns

SpecStats == StatsInit /\ [][StatsNext]_vars

\* ------------------------------------------------------- gather_github_prs
\* The PR listing of each github project, page by page.  The backend answers
\* a request with 404, or with a list of PRs and, in the Link header, a next
\* page or none.  main calls gather_github_prs with one project at least
\* (zing_stats.py:222); the projects file names each project once.
GithubProjectLists == {<<"g1">>, <<"g1", "g2">>, <<"g2", "g1">>}

RawPr == [id : 1..MaxPrs, ref : Branches, updated_at : Times]

PrPages == SeqsUpTo(RawPr, MaxPrs)

\* d.pop(k)
Pop(d, k) == [x \in (DOMAIN d) \ {k} |-> d[x]]

\* lines 391-408: the for loop over one page, from its k-th PR on; found is
\* prs[project].  A PR of a branch left out is passed over, the first PR
\* older than oldest_timestamp ends the project.
RECURSIVE ScanPrs(_, _, _)
ScanPrs(page, k, found) ==
    IF k > Len(page)
    THEN [found |-> found, project_finished |-> FALSE]
    ELSE IF branches # {} /\ page[k].ref \notin branches
    THEN ScanPrs(page, k + 1, found)
    ELSE IF page[k].updated_at < start_dt
    THEN [found |-> found, project_finished |-> TRUE]
    ELSE ScanPrs(page, k + 1, Put(found, page[k].id, page[k]))

Project == projects_github[project_no]

PrsInit ==
    /\ MainIdle
    /\ ChangeIdle
    /\ stream = << >> /\ projects = {}
    /\ query_size = 1 /\ max_changes = 0 /\ query_start = 0
    /\ changes = << >> /\ results = << >> /\ idx = 1
    /\ pc = "idle" /\ error = "none" /\ requests = << >>
    /\ StatsIdle
    /\ ParserIdle
    /\ CiIdle
    /\ branches \in BranchFilters
    /\ start_dt \in Times
    /\ projects_github \in GithubProjectLists
    /\ prs = << >>
    /\ not_found_proj = << >>
    /\ total_prs = 0
    /\ project_no = 1
    /\ page_no = 0
    /\ status_code = 0
    /\ project_finished = FALSE
    /\ prs_pc = "project"

\* lines 355-363: the next project, its map empty
StartProject ==
    /\ prs_pc = "project"
    /\ project_no <= Len(projects_github)
    /\ prs' = Put(prs, Project, << >>)
    /\ page_no' = 0
    /\ project_finished' = FALSE
    /\ prs_pc' = "request"
    /\ UNCHANGED <<projects_github, not_found_proj, total_prs, project_no,
                   status_code>>
    /\ UNCHANGED outsidePrs

PageNotFoundKept ==
    /\ prs_pc = "request"
    /\ page_no < MaxPrPages
    /\ page_no' = page_no + 1
    /\ status_code' = 404
    /\ not_found_proj' = Append(not_found_proj, Project)
    /\ prs_pc' = "endproject"
    /\ UNCHANGED <<projects_github, prs, total_prs, project_no, project_finished>>
    /\ UNCHANGED outsidePrs

\* lines 364-385: the listing answers 404
PageNotFound ==
    /\ prs_pc = "request"
    /\ page_no < MaxPrPages
    /\ page_no' = page_no + 1
    /\ status_code' = 404
    /\ prs' = Pop(prs, Project)
    /\ not_found_proj' = Append(not_found_proj, Project)
    /\ prs_pc' = "endproject"
    /\ UNCHANGED <<projects_github, total_prs, project_no, project_finished>>
    /\ UNCHANGED outsidePrs

\* lines 364-416: the listing answers a page, with a next link or without
PageListed(page, next_page) ==
    LET scan == ScanPrs(page, 1, prs[Project]) IN
    /\ prs_pc = "request"
    /\ page_no < MaxPrPages
    /\ next_page => page_no + 1 < MaxPrPages
    /\ page_no' = page_no + 1
    /\ status_code' = 200
    /\ prs' = Put(prs, Project, scan.found)
    /\ project_finished' = scan.project_finished
    /\ prs_pc' = IF ~scan.project_finished /\ next_page
                 THEN "request" ELSE "endproject"
    /\ UNCHANGED <<projects_github, not_found_proj, total_prs, project_no>>
    /\ UNCHANGED outsidePrs

\* lines 418-420
EndProject ==
    /\ prs_pc = "endproject"
    /\ total_prs' = IF Project \in DOMAIN prs
                    THEN total_prs + Cardinality(DOMAIN prs[Project])
                    ELSE total_prs
    /\ project_no' = project_no + 1
    /\ prs_pc' = "project"
    /\ UNCHANGED <<projects_github, prs, not_found_proj, page_no, status_code,
                   project_finished>>
    /\ UNCHANGED outsidePrs

\* lines 422-424
GatherGithubPrsReturns ==
    /\ prs_pc = "project"
    /\ project_no > Len(projects_github)
    /\ prs_pc' = "done"
    /\ UNCHANGED <<projects_github, prs, not_found_proj, total_prs,
                   project_no, page_no, status_code, project_finished>>
    /\ UNCHANGED outsidePrs

NextPageListed ==
    \E page \in PrPages : \E next_page \in BOOLEAN : PageListed(page, next_page)

PrsNext ==
    \/ StartProject
    \/ PageNotFound
    \/ NextPageListed
    \/ EndProject
    \/ GatherGithubPrsReturns

SpecPrs == PrsInit /\ [][PrsNext]_vars

\* ------------------------------------------------------------------ parser
\* zingstats/parser.py.  A text is a sequence of tokens, each a literal of
\* the patterns or a run of characters of one class; the patterns are the
\* source's, atom by atom, and are matched as re matches them: from left to
\* right, a repetition greedy, a later atom failing making an earlier one
\* give back.
\*
\*   token      stands for                  token      stands for
\*   PS         "Patch Set "                DASH       "- "
\*   num        a run of digits, value n    HTTP       "http"
\*   COLON      ":"                         SEG1       "://ci/job/test-check/12/ : SUCCESS in "
\*   VER        " Verified"                 SEG2       "://logs/path/test-check : SUCCESS in "
\*   SCORE      "+1"                        H, M, S    "h", "m", "s"
\*   NL, SP     "\n", " "                   NV         " (non-voting)"
\*   BUILD      "Build "                    X          "!"
\*   DOT, US    ".", "_"                    PROMO1     "Promotion review "
\*   a status   itself                      PROMO2     " has brought into alpha channel"
\*   PF1        "PROMOTION FAILURE"
\*   PF2        "Promotion of artifacts from this change into Alpha channel has failed"
StatusWords == {"succeeded", "SUCCEEDED", "successful", "ok", "failed", "aborted"}

Tok(k) == [k |-> k, n |-> 0]

Num(n) == [k |-> "num", n |-> n]

\* the character classes of the patterns, as sets of token kinds
SpaceKinds == {"NL", "SP"}

NonSpaceKinds ==
    StatusWords \cup {"num", "COLON", "SCORE", "DOT", "US", "X", "HTTP",
                      "H", "M", "S", "PF1"}

InClass(tok, c) ==
    CASE c = "\\s" -> tok.k \in SpaceKinds
      [] c = "\\S" -> tok.k \in NonSpaceKinds
      [] c = "." -> tok.k # "NL"
      [] c = ".DOTALL" -> TRUE

\* the atoms of a pattern: a literal, \d+, a class repeated (+ or *), an
\* optional group of atoms, ^ and $ (re.MULTILINE); g names the group the
\* atom is or makes up
Lit(k) == [t |-> "lit", k |-> k, g |-> "", r |-> << >>]

Named(k, g) == [t |-> "lit", k |-> k, g |-> g, r |-> << >>]

Digits(g) == [t |-> "lit", k |-> "num", g |-> g, r |-> << >>]

Plus(c, g) == [t |-> "plus", k |-> c, g |-> g, r |-> << >>]

Star(c, g) == [t |-> "star", k |-> c, g |-> g, r |-> << >>]

Opt(r) == [t |-> "opt", k |-> "", g |-> "", r |-> r]

Bol == [t |-> "bol", k |-> "", g |-> "", r |-> << >>]

Eol == [t |-> "eol", k |-> "", g |-> "", r |-> << >>]

\* the length of the run of tokens of class c from position pos on
RECURSIVE RunLength(_, _, _)
RunLength(text, pos, c) ==
    IF pos <= Len(text) /\ InClass(text[pos], c)
    THEN 1 + RunLength(text, pos + 1, c)
    ELSE 0

\* re's match of the atoms re[i..] at position pos: << >> when there is
\* none, else <<[end |-> the position after the match, groups |-> the
\* tokens of each named group that took part]>>
RECURSIVE MatchFrom(_, _, _, _, _)
RECURSIVE MatchRun(_, _, _, _, _, _, _)
MatchFrom(re, i, text, pos, groups) ==
    IF i > Len(re) THEN <<[end |-> pos, groups |-> groups]>>
    ELSE LET a == re[i] IN
    CASE a.t = "lit" ->
            IF pos <= Len(text) /\ text[pos].k = a.k
            THEN MatchFrom(re, i + 1, text, pos + 1,
                           IF a.g = "" THEN groups
                           ELSE Put(groups, a.g, <<text[pos]>>))
            ELSE << >>
      [] a.t = "bol" ->
            IF pos = 1 \/ text[pos - 1].k = "NL"
            THEN MatchFrom(re, i + 1, text, pos, groups) ELSE << >>
      [] a.t = "eol" ->
            IF pos = Len(text) + 1 \/ text[pos].k = "NL"
            THEN MatchFrom(re, i + 1, text, pos, groups) ELSE << >>
      [] a.t = "plus" ->
            MatchRun(re, i, text, pos, groups, RunLength(text, pos, a.k), 1)
      [] a.t = "star" ->
            MatchRun(re, i, text, pos, groups, RunLength(text, pos, a.k), 0)
      [] a.t = "opt" ->
            LET with == MatchFrom(a.r \o SubSeq(re, i + 1, Len(re)), 1, text, pos,
                                  groups)
            IN  IF with # << >> THEN with
                ELSE MatchFrom(re, i + 1, text, pos, groups)

\* a repetition taking n tokens, then one less, down to least
MatchRun(re, i, text, pos, groups, n, least) ==
    IF n < least THEN << >>
    ELSE LET rest == MatchFrom(re, i + 1, text, pos + n,
                               IF re[i].g = "" THEN groups
                               ELSE Put(groups, re[i].g,
                                        SubSeq(text, pos, pos + n - 1)))
         IN  IF rest # << >> THEN rest
             ELSE MatchRun(re, i, text, pos, groups, n - 1, least)

\* re.finditer: the matches from left to right, each sought from the end of
\* the one before
RECURSIVE FindIter(_, _, _)
FindIter(re, text, pos) ==
    IF pos > Len(text) + 1 THEN << >>
    ELSE LET m == MatchFrom(re, 1, text, pos, << >>) IN
         IF m = << >> THEN FindIter(re, text, pos + 1)
         ELSE <<m[1].groups>> \o
              FindIter(re, text, IF m[1].end > pos THEN m[1].end ELSE pos + 1)

ReSearch(re, text) ==
    LET found == FindIter(re, text, 1)
    IN  IF found = << >> THEN << >>
        ELSE <<[end |-> 0, groups |-> found[1]]>>

\* re.match: at the start of the text only
ReMatch(re, text) == MatchFrom(re, 1, text, 1, << >>)

\* line 31
ci_run_patt_gerrit ==
    <<Lit("PS"), Digits("num"), Lit("COLON"), Lit("VER"), Plus("\\S", "v_score"),
      Plus("\\s", ""), Lit("BUILD"), Plus("\\S", "status"), Plus("\\s", ""),
      Plus(".DOTALL", "jobs")>>

\* line 41
ci_run_patt_pr ==
    <<Lit("BUILD"), Plus("\\S", "status"), Plus("\\s", ""),
      Plus(".DOTALL", "jobs")>>

\* lines 56 and 58, from "(?P<time_h>" on
job_time_patt ==
    <<Opt(<<Digits("time_h"), Lit("H"), Lit("SP")>>),
      Opt(<<Digits("time_m"), Lit("M"), Lit("SP")>>),
      Digits("time_s"), Lit("S"),
      Opt(<<Named("NV", "non_voting")>>),
      Star(".", "the_rest"), Eol>>

\* line 56; SEG1 is a text that "://(.+)?/job/(\S+)/\d+/ : (\S+) in " matches
ci_job_v1_patt ==
    <<Bol, Lit("DASH"), Opt(<<Plus(".", "proto")>>), Lit("SEG1")>> \o job_time_patt

\* line 58; SEG2 is a text that "://(.+)?/(\D+) : (\S+) in " matches
ci_job_v2_patt ==
    <<Bol, Lit("DASH"), Opt(<<Plus(".", "proto")>>), Lit("SEG2")>> \o job_time_patt

\* ci_job_match.group(g): << >> is None
Group(groups, g) == IF g \in DOMAIN groups THEN groups[g] ELSE << >>

TotalSecWithoutMinutes(groups) ==
    (IF Group(groups, "time_h") # << >> THEN groups["time_h"][1].n * 3600 ELSE 0)
    + (IF Group(groups, "time_s") # << >> THEN groups["time_s"][1].n ELSE 0)

\* lines 85-98
TotalSec(groups) ==
    (IF Group(groups, "time_h") # << >> THEN groups["time_h"][1].n * 3600 ELSE 0)
    + (IF Group(groups, "time_m") # << >> THEN groups["time_m"][1].n * 60 ELSE 0)
    + (IF Group(groups, "time_s") # << >> THEN groups["time_s"][1].n ELSE 0)

\* lines 80-100: the job's time and its non-voting marker (its name and its
\* result are left out)
Job(groups) ==
    [total_sec |-> TotalSec(groups),
     non_voting |-> Group(groups, "non_voting")]

\* line 101
UnexpectedContent(groups) == Len(Group(groups, "the_rest")) > 0

\* lines 77-79: the matches of the v1 pattern, then those of the v2 pattern
JobMatches(jobs) ==
    FindIter(ci_job_v1_patt, jobs, 1) \o FindIter(ci_job_v2_patt, jobs, 1)

\* __parse_change_messages: error is the exception raised, run is << >> for
\* the empty dict and <<the run>> otherwise
ParseChangeMessages(message, ci_run_patt) ==
    LET ci_run_match == ReMatch(ci_run_patt, message) IN
    IF ci_run_match = << >> THEN [error |-> "none", run |-> << >>]
    ELSE LET groups == ci_run_match[1].groups
             found == JobMatches(groups["jobs"])
         IN  IF \E k \in 1..Len(found) : UnexpectedContent(found[k])
             THEN [error |-> "Exception", run |-> << >>]
             ELSE [error |-> "none",
                   run |-> <<[num |-> Group(groups, "num"),
                              v_score |-> Group(groups, "v_score"),
                              status |-> groups["status"],
                              jobs |-> [k \in 1..Len(found) |-> Job(found[k])]]>>]

\* lines 24-33
parse_ci_job_comments(text) == ParseChangeMessages(text, ci_run_patt_gerrit)

\* lines 36-43
parse_pr_message(body) == ParseChangeMessages(body, ci_run_patt_pr)

\* lines 109 and 115: "(Patch Set \d+:\n\n)?"
patch_set_prefix ==
    Opt(<<Lit("PS"), Lit("num"), Lit("COLON"), Lit("NL"), Lit("NL")>>)

\* line 109
promotion_success_patt ==
    <<patch_set_prefix, Lit("PROMO1"), Plus(".", ""), Lit("PROMO2")>>

\* line 115
promotion_failure_patt ==
    <<patch_set_prefix, Lit("PF1"), Lit("NL"), Lit("NL"), Lit("PF2")>>

\* lines 108-111: a match object is true, None is false
parse_promotion_success(msg) == ReMatch(promotion_success_patt, msg) # << >>

parse_promotion_failure_prefix_only(msg) == ReMatch(<<patch_set_prefix>>, msg) # << >>

\* lines 114-117
parse_promotion_failure(msg) == ReMatch(promotion_failure_patt, msg) # << >>

\* The texts given to the parser: a header, or none, or a part of one, and
\* job lines, well formed or not.
Nums == 1..MaxNum

HourParts == {<< >>} \cup {<<Num(n), Tok("H"), Tok("SP")>> : n \in Nums}

MinuteParts == {<< >>} \cup {<<Num(n), Tok("M"), Tok("SP")>> : n \in Nums}

SecondParts == {<< >>} \cup {<<Num(n), Tok("S")>> : n \in Nums}

NonVotingParts == {<< >>, <<Tok("NV")>>}

Rests == {<< >>, <<Tok("X")>>, <<Tok("SP")>>}

JobTails ==
    {h \o m \o sec \o nv \o rest :
        h \in HourParts, m \in MinuteParts, sec \in SecondParts,
        nv \in NonVotingParts, rest \in Rests}

JobStart(seg) == <<Tok("DASH"), Tok("HTTP"), Tok(seg)>>

JobLines == {JobStart(seg) \o tail : seg \in {"SEG1", "SEG2"}, tail \in JobTails}

\* what may come before the last line: a job line of either kind, one with
\* something after the time, one without a time, and a job on the line of
\* another
FirstLines ==
    {JobStart("SEG1") \o <<Num(1), Tok("S")>>,
     JobStart("SEG2") \o <<Num(2), Tok("M"), Tok("SP"), Num(1), Tok("S"), Tok("NV")>>,
     JobStart("SEG1") \o <<Num(1), Tok("S"), Tok("X")>>,
     JobStart("SEG2")}

Bodies ==
    {<< >>} \cup JobLines
    \cup {first \o <<Tok("NL")>> \o line : first \in FirstLines, line \in JobLines}
    \cup {first \o <<Tok("SP")>> \o line : first \in FirstLines,
                line \in {JobStart("SEG1") \o <<Num(1), Tok("S")>>,
                          JobStart("SEG1") \o <<Num(1), Tok("S"), Tok("SP")>>}}

Verified == <<Tok("PS"), Num(1), Tok("COLON"), Tok("VER"), Tok("SCORE")>>

Blank == <<Tok("NL"), Tok("NL")>>

Headers ==
    {<< >>,
     Verified \o Blank \o <<Tok("BUILD"), Tok("succeeded")>> \o Blank,
     Verified \o Blank \o <<Tok("BUILD"), Tok("failed")>> \o Blank,
     Verified \o Blank \o <<Tok("BUILD"), Tok("succeeded"), Tok("DOT")>> \o Blank,
     Verified \o Blank \o <<Tok("BUILD"), Tok("succeeded"), Tok("NL")>>,
     <<Tok("X")>> \o Verified \o Blank \o <<Tok("BUILD"), Tok("succeeded")>> \o Blank,
     <<Tok("PS"), Num(1), Tok("COLON")>> \o Blank
        \o <<Tok("BUILD"), Tok("succeeded")>> \o Blank,
     Verified \o Blank,
     <<Tok("BUILD"), Tok("succeeded")>> \o Blank,
     <<Tok("BUILD"), Tok("failed"), Tok("SP")>>,
     <<Tok("X"), Tok("NL"), Tok("BUILD"), Tok("succeeded")>> \o Blank}

RunTexts == {header \o body : header \in Headers, body \in Bodies}

PromotionTexts ==
    {before \o promotion :
        before \in {<< >>, <<Tok("X")>>,
                    <<Tok("PS"), Num(1), Tok("COLON")>> \o Blank,
                    <<Tok("PS"), Num(1), Tok("COLON"), Tok("NL")>>},
        promotion \in {<<Tok("PROMO1"), Num(1), Tok("PROMO2")>>,
                       <<Tok("PROMO1"), Tok("PROMO2")>>,
                       <<Tok("PROMO1"), Num(1), Tok("NL"), Tok("PROMO2")>>,
                       <<Tok("PROMO1"), Num(1), Tok("X"), Tok("PROMO2"), Tok("X")>>,
                       <<Tok("PROMO1"), Num(1)>>,
                       <<Tok("PF1")>> \o Blank \o <<Tok("PF2")>>,
                       <<Tok("PF1"), Tok("NL"), Tok("PF2")>>,
                       <<Tok("PF1")>>,
                       <<Tok("PF1")>> \o Blank \o <<Tok("PF2"), Tok("NL"),
                            Tok("PROMO1"), Num(1), Tok("PROMO2")>>,
                       <<Tok("X")>>}}

MessageTexts == RunTexts \cup PromotionTexts

ParserInit ==
    /\ MainIdle
    /\ ChangeIdle
    /\ stream = << >> /\ projects = {} /\ branches = {} /\ start_dt = 0
    /\ query_size = 1 /\ max_changes = 0 /\ query_start = 0
    /\ changes = << >> /\ results = << >> /\ idx = 1
    /\ pc = "idle" /\ error = "none" /\ requests = << >>
    /\ StatsIdle
    /\ PrsIdle
    /\ CiIdle
    /\ parser_text \in MessageTexts
    /\ run = << >>
    /\ parser_error = "none"
    /\ promotion_succeeded = FALSE
    /\ promotion_failed = FALSE
    /\ parser_pc = "start"

\* the text is a Gerrit message's
ParseCiJobComments ==
    LET parsed == parse_ci_job_comments(parser_text) IN
    /\ parser_pc = "start"
    /\ run' = parsed.run
    /\ parser_error' = parsed.error
    /\ parser_pc' = "parse_ci_job_comments"
    /\ UNCHANGED <<parser_text, promotion_succeeded, promotion_failed>>
    /\ UNCHANGED outsideParser

\* the text is a PR comment's body
ParsePrMessage ==
    LET parsed == parse_pr_message(parser_text) IN
    /\ parser_pc = "start"
    /\ run' = parsed.run
    /\ parser_error' = parsed.error
    /\ parser_pc' = "parse_pr_message"
    /\ UNCHANGED <<parser_text, promotion_succeeded, promotion_failed>>
    /\ UNCHANGED outsideParser

\* both detectors on the text, as parse_ci_stats calls them
\* (zing_stats.py:623-631)
ParsePromotions ==
    /\ parser_pc = "start"
    /\ promotion_succeeded' = parse_promotion_success(parser_text)
    /\ promotion_failed' = parse_promotion_failure(parser_text)
    /\ parser_pc' = "parse_promotion"
    /\ UNCHANGED <<parser_text, run, parser_error>>
    /\ UNCHANGED outsideParser

ParserNext ==
    \/ ParseCiJobComments
    \/ ParsePrMessage
    \/ ParsePromotions

SpecParser == ParserInit /\ [][ParserNext]_vars

\* ---------------------------------------------------------- parse_ci_stats
\* parse_ci_stats over the changes of a Gerrit project and parse_pr_ci_stats
\* over the PRs of a github project, message by message.  generate_dataframes
\* calls them after parse_change_stats has returned for the same changes
\* (zing_stats.py:256-266), so that a change is merged exactly when it has a
\* merged timestamp.
CiKinds == {"gerrit", "github"}

CiChanges ==
    {c \in [status : Statuses, updated_dt : Times,
            merged_dt : {<< >>} \cup {<<t>> : t \in Times}] :
        /\ c.status = "MERGED" <=> c.merged_dt # << >>
        /\ c.merged_dt # << >> => c.merged_dt[1] <= c.updated_dt}

\* the statuses a run reports: the words of the two lists, in capitals, with
\* a full stop after, with an underscore after, and a word of neither list
StatusTexts ==
    {<<Tok("succeeded")>>, <<Tok("SUCCEEDED")>>, <<Tok("succeeded"), Tok("DOT")>>,
     <<Tok("successful")>>, <<Tok("ok")>>, <<Tok("ok"), Tok("US")>>,
     <<Tok("failed")>>, <<Tok("aborted")>>}

CiJob(n) == JobStart("SEG1") \o <<Num(n), Tok("S")>>

\* the jobs of a run: none, the 7-second job of the tests, two jobs with the
\* longer one last and with the longer one first
CiJobLists ==
    {<< >>, CiJob(7),
     CiJob(1) \o <<Tok("NL")>> \o CiJob(2), CiJob(2) \o <<Tok("NL")>> \o CiJob(1)}

CiHeader(kind, status) ==
    (IF kind = "gerrit" THEN Verified \o Blank ELSE << >>)
    \o <<Tok("BUILD")>> \o status \o Blank

\* the texts that come with every timestamp: a run that succeeded, one that
\* failed, one with a job line that has something after its time, and a
\* promotion message
DatedTexts(kind) ==
    {CiHeader(kind, <<Tok("succeeded")>>) \o CiJob(7),
     CiHeader(kind, <<Tok("failed")>>) \o CiJob(2),
     CiHeader(kind, <<Tok("succeeded")>>) \o CiJob(1) \o <<Tok("X")>>,
     <<Tok("PROMO1"), Num(1), Tok("PROMO2")>>}

\* the texts of the messages: also runs of every status, runs of jobs, the
\* other promotion message, and a message that is none of these
CiTexts(kind) ==
    DatedTexts(kind)
    \cup {CiHeader(kind, status) \o CiJob(1) : status \in StatusTexts}
    \cup {CiHeader(kind, <<Tok("succeeded")>>) \o jobs : jobs \in CiJobLists}
    \cup {<<Tok("PF1")>> \o Blank \o <<Tok("PF2")>>, <<Tok("X")>>}

\* the messages: the dated texts at every timestamp, the others at the latest
\* one, which no start_dt is after
CiMessages(kind) ==
    [message_dt : Times, text : DatedTexts(kind)]
    \cup [message_dt : {MaxDt}, text : CiTexts(kind)]

\* line 54
CI_FAILURE_STATUSES == {"failed"}

CI_SUCCESS_AND_FAILURE_STATUSES == {"succeeded", "successful", "ok", "failed"}

\* line 55
CI_SUCCESS_STATUSES == {"succeeded", "successful", "ok"}

\* str.lower, token by token
Lower(tok) == IF tok.k = "SUCCEEDED" THEN Tok("succeeded") ELSE tok

\* \W: what is not a letter, a digit or an underscore
NonWordKinds == {"DOT", "COLON", "X"}

\* lines 651 and 784: re.sub(r'\W+', '', ci_run['status'].lower())
NormalisedStatus(status) ==
    LET lowered == [i \in 1..Len(status) |-> Lower(status[i])]
        IsWord(tok) == tok.k \notin NonWordKinds
    IN  SelectSeq(lowered, IsWord)

\* status in <list>: the string is one of the list's words
StatusIn(status, list) == Len(status) = 1 /\ status[1].k \in list

RunDiscardedOrEqual(m) == m.message_dt <= start_dt

\* lines 639 and 773
RunDiscarded(m) == m.message_dt < start_dt

SuccessBucketOfMessage(c, m) == m.message_dt

\* lines 653, 665, 782: change.updated_dt, pr['updated_at']
SuccessBucket(c, m) == c.updated_dt

\* lines 679 and 804
CiMerged(kind, c) ==
    IF kind = "gerrit" THEN c.status = "MERGED" ELSE c.merged_dt # << >>

\* d[k] = n: the assignment in place of the addition
SetTo(d, k, n) == [x \in (DOMAIN d) \cup {k} |-> IF x = k THEN n ELSE d[x]]

\* d[k] read on the defaultdict, nothing added
AddNothing(d, k, n) ==
    [x \in (DOMAIN d) \cup {k} |->
        IF x = k THEN (IF k \in DOMAIN d THEN d[k] ELSE 0) ELSE d[x]]

\* d[k] += n on a defaultdict(int)
AddTo(d, k, n) ==
    [x \in (DOMAIN d) \cup {k} |->
        IF x = k THEN (IF k \in DOMAIN d THEN d[k] ELSE 0) + n ELSE d[x]]

\* the for loop over the jobs with the comparison left out: the last job stays
RECURSIVE AddJobsLastWins(_, _, _, _, _)
AddJobsLastWins(jobs, k, bucket, total, longest) ==
    IF k > Len(jobs) THEN [total |-> total, longest |-> longest]
    ELSE LET sec == jobs[k].total_sec
         IN  AddJobsLastWins(jobs, k + 1, bucket,
                             [x \in (DOMAIN total) \cup {bucket} |->
                                 IF x = bucket
                                 THEN (IF bucket \in DOMAIN total
                                       THEN total[bucket] ELSE 0) + sec
                                 ELSE total[x]],
                             [x \in (DOMAIN longest) \cup {bucket} |->
                                 IF x = bucket THEN sec ELSE longest[x]])

\* lines 680-711: the for loop over the jobs of a run, from the k-th on
RECURSIVE AddJobs(_, _, _, _, _)
AddJobs(jobs, k, bucket, total, longest) ==
    IF k > Len(jobs) THEN [total |-> total, longest |-> longest]
    ELSE LET sec == jobs[k].total_sec
             seen == AddTo(longest, bucket, 0)
         IN  AddJobs(jobs, k + 1, bucket, AddTo(total, bucket, sec),
                     IF sec > seen[bucket] THEN Put(seen, bucket, sec) ELSE seen)

\* what the parser makes of each text: lines 624, 630, 636 and 753, 759, 764
CiParsed ==
    [kind \in CiKinds |->
        [text \in CiTexts(kind) |->
            [ci_run |-> IF kind = "gerrit" THEN parse_ci_job_comments(text)
                                          ELSE parse_pr_message(text),
             promotion_succeeded |-> parse_promotion_success(text),
             promotion_failed |-> parse_promotion_failure(text)]]]

CiParse(kind, text) == CiParsed[kind][text].ci_run

CiInit ==
    /\ MainIdle
    /\ ChangeIdle
    /\ GatherIdle
    /\ StatsIdle
    /\ PrsIdle
    /\ ParserIdle
    /\ start_dt \in Times
    /\ ci_kind \in CiKinds
    /\ ci_total_time_sec = << >> /\ ci_longest_time_sec = << >>
    /\ ci_success = << >> /\ ci_failure = << >>
    /\ promotion_success = << >> /\ promotion_failure = << >>
    /\ ci_change = << >> /\ ci_message = << >>
    /\ ci_nchanges = 0 /\ ci_nmessages = 0
    /\ ci_pc = "changes" /\ ci_error = "none"

\* lines 613-614, 740-741: the next change, the next PR
CiNextChange(c) ==
    /\ ci_pc = "changes"
    /\ ci_nchanges < MaxCiChanges
    /\ ci_nchanges' = ci_nchanges + 1
    /\ ci_change' = <<c>>
    /\ ci_pc' = "messages"
    /\ UNCHANGED <<ci_nmessages, ci_kind, ci_total_time_sec, ci_longest_time_sec, ci_success,
                   ci_failure, promotion_success, promotion_failure,
                   ci_message, ci_error>>
    /\ UNCHANGED outsideCi

\* the promotion messages counted at the updated timestamp of the change
CountPromotionsAtUpdated(m) ==
    /\ promotion_success' =
        IF CiParsed[ci_kind][m.text].promotion_succeeded /\ m.message_dt > start_dt
        THEN Incr(promotion_success, ci_change[1].updated_dt) ELSE promotion_success
    /\ promotion_failure' =
        IF CiParsed[ci_kind][m.text].promotion_failed /\ m.message_dt > start_dt
        THEN Incr(promotion_failure, ci_change[1].updated_dt) ELSE promotion_failure

\* the promotion messages counted from start_dt on
CountPromotionsFromStart(m) ==
    /\ promotion_success' =
        IF CiParsed[ci_kind][m.text].promotion_succeeded /\ m.message_dt >= start_dt
        THEN Incr(promotion_success, m.message_dt) ELSE promotion_success
    /\ promotion_failure' =
        IF CiParsed[ci_kind][m.text].promotion_failed /\ m.message_dt >= start_dt
        THEN Incr(promotion_failure, m.message_dt) ELSE promotion_failure

\* lines 623-634, 752-762: the promotion messages newer than start_dt
CountPromotions(m) ==
    /\ promotion_success' =
        IF CiParsed[ci_kind][m.text].promotion_succeeded /\ m.message_dt > start_dt
        THEN Incr(promotion_success, m.message_dt) ELSE promotion_success
    /\ promotion_failure' =
        IF CiParsed[ci_kind][m.text].promotion_failed /\ m.message_dt > start_dt
        THEN Incr(promotion_failure, m.message_dt) ELSE promotion_failure

\* lines 617-711, 742-829: the body of the loop for the next message
CiMessage(m) ==
    LET c == ci_change[1]
        parsed == CiParse(ci_kind, m.text)
        counted == <<ci_total_time_sec, ci_longest_time_sec, ci_success, ci_failure>>
    IN
    /\ ci_pc = "messages"
    /\ ci_nmessages < MaxCiMessages
    /\ ci_nmessages' = ci_nmessages + 1
    /\ ci_message' = <<m>>
    /\ CountPromotions(m)
    /\ IF parsed.error # "none"
       THEN /\ ci_pc' = "error"
            /\ ci_error' = parsed.error
            /\ UNCHANGED counted
       ELSE /\ UNCHANGED <<ci_pc, ci_error>>
            /\ IF parsed.run = << >> \/ RunDiscarded(m)
               THEN UNCHANGED counted
               ELSE LET status == NormalisedStatus(parsed.run[1].status)
                        success == StatusIn(status, CI_SUCCESS_STATUSES)
                        failure == ~success /\ StatusIn(status, CI_FAILURE_STATUSES)
                        added == AddJobs(parsed.run[1].jobs, 1, c.merged_dt[1],
                                         ci_total_time_sec, ci_longest_time_sec)
                    IN  /\ ci_success' = IF success
                                         THEN Incr(ci_success, SuccessBucket(c, m))
                                         ELSE ci_success
                        /\ ci_failure' = IF failure
                                         THEN Incr(ci_failure, SuccessBucket(c, m))
                                         ELSE ci_failure
                        /\ IF (success \/ failure) /\ CiMerged(ci_kind, c)
                           THEN /\ ci_total_time_sec' = added.total
                                /\ ci_longest_time_sec' = added.longest
                           ELSE UNCHANGED <<ci_total_time_sec, ci_longest_time_sec>>
    /\ UNCHANGED <<ci_kind, ci_change, ci_nchanges>>
    /\ UNCHANGED outsideCi

\* the messages of the change are exhausted
CiChangeDone ==
    /\ ci_pc = "messages"
    /\ ci_pc' = "changes"
    /\ UNCHANGED <<ci_kind, ci_total_time_sec, ci_longest_time_sec, ci_success,
                   ci_failure, promotion_success, promotion_failure, ci_change,
                   ci_message, ci_nchanges, ci_nmessages, ci_error>>
    /\ UNCHANGED outsideCi

\* lines 713-721, 831-843: the changes are exhausted, the DataFrame is built
CiStatsReturns ==
    /\ ci_pc = "changes"
    /\ ci_pc' = "done"
    /\ UNCHANGED <<ci_kind, ci_total_time_sec, ci_longest_time_sec, ci_success,
                   ci_failure, promotion_success, promotion_failure, ci_change,
                   ci_message, ci_nchanges, ci_nmessages, ci_error>>
    /\ UNCHANGED outsideCi

CiNextChangeTaken == \E c \in CiChanges : CiNextChange(c)

CiNextMessage == \E m \in CiMessages(ci_kind) : CiMessage(m)

CiNext ==
    \/ CiNextChangeTaken
    \/ CiNextMessage
    \/ CiChangeDone
    \/ CiStatsReturns

SpecCi == CiInit /\ [][CiNext]_vars

\* ============================================ changes.py: GerritChange
\* GerritChange.__init__, lines 165-195: the loop over change['revisions']
\* and the loop over change['messages'].
MaxRawRevisions == 2   \* revisions of a raw change; also their ids and numbers
MaxRawMessages == 2    \* messages of a raw change; also their ids

RevisionIds == 1..MaxRawRevisions

RevisionNumbers == 1..MaxRawRevisions

MessageIds == 1..MaxRawMessages

DistinctBy(s, Key(_)) ==
    \A i, j \in 1..Len(s) : i # j => Key(s[i]) # Key(s[j])

RevisionIdOf(r) == r.revision_id

MessageIdOf(m) == m.id

\* change['revisions']: a dict by revision id, taken in its iteration order;
\* a change has a revision at least
RawRevisions ==
    {s \in SeqsUpTo([revision_id : RevisionIds, number : RevisionNumbers],
                    MaxRawRevisions) :
        Len(s) >= 1 /\ DistinctBy(s, RevisionIdOf)}

\* change['messages']: a list, each message with its id and _revision_number
RawMessages ==
    {s \in SeqsUpTo([id : MessageIds, revision_number : RevisionNumbers],
                    MaxRawMessages) :
        DistinctBy(s, MessageIdOf)}

RawGerritChange == [revisions : RawRevisions, messages : RawMessages]

\* Revision.__init__ and GerritRevision.__init__, lines 204-212 and 228-231
GerritRevision(revision_id, revision) ==
    [revision_id |-> revision_id, number |-> revision.number, messages |-> << >>]

\* Message.__init__ and GerritMessage.__init__, lines 257-259 and 263-265
GerritMessage(message_id) == [message_id |-> message_id]

\* the message put in front of the list
add_message_first(revision, message) ==
    [revision EXCEPT !.messages = <<message>> \o @]

\* Revision.add_message, lines 219-220
add_message(revision, message) ==
    [revision EXCEPT !.messages = Append(@, message)]

\* Revision.messages, lines 222-224
messages(revision) == revision.messages

\* sorted(self._revisions), line 155
RECURSIVE Sorted(_)
Sorted(keys) ==
    IF keys = {} THEN << >>
    ELSE LET least == CHOOSE k \in keys : \A x \in keys : k <= x
         IN  <<least>> \o Sorted(keys \ {least})

\* Change.revisions, lines 154-156
Revisions(revs) ==
    LET keys == Sorted(DOMAIN revs) IN [i \in 1..Len(keys) |-> revs[keys[i]]]

\* Change.rev_count, lines 158-159
rev_count(revs) == Cardinality(DOMAIN revs)

ChangeInit ==
    /\ MainIdle
    /\ GatherIdle
    /\ StatsIdle
    /\ PrsIdle
    /\ ParserIdle
    /\ CiIdle
    /\ start_dt = 0
    /\ raw_change \in {<<raw>> : raw \in RawGerritChange}
    /\ change_revisions = << >>
    /\ rev_no = 0 /\ msg_no = 0
    /\ change_pc = "revisions" /\ change_error = "none"

outsideChange == <<gatherVars, statsVars, prsVars, parserVars, ciVars, mainVars>>

\* lines 181-187: the next revision of change['revisions']
ChangeAddRevision ==
    /\ change_pc = "revisions"
    /\ rev_no < Len(raw_change[1].revisions)
    /\ LET r == raw_change[1].revisions[rev_no + 1]
       IN  change_revisions' =
               Put(change_revisions, r.number, GerritRevision(r.revision_id, r))
    /\ rev_no' = rev_no + 1
    /\ UNCHANGED <<raw_change, msg_no, change_pc, change_error>>
    /\ UNCHANGED outsideChange

\* the revisions are exhausted: line 190 is reached
ChangeRevisionsDone ==
    /\ change_pc = "revisions"
    /\ rev_no = Len(raw_change[1].revisions)
    /\ change_pc' = "messages"
    /\ UNCHANGED <<raw_change, change_revisions, rev_no, msg_no, change_error>>
    /\ UNCHANGED outsideChange

\* lines 189-195: the next message goes to the revision of its number
ChangeAddMessage ==
    /\ change_pc = "messages"
    /\ msg_no < Len(raw_change[1].messages)
    /\ LET message_json == raw_change[1].messages[msg_no + 1]
           number == message_json.revision_number
       IN  /\ number \in DOMAIN change_revisions
           /\ change_revisions' =
                [change_revisions EXCEPT
                    ![number] = add_message(@, GerritMessage(message_json.id))]
    /\ msg_no' = msg_no + 1
    /\ UNCHANGED <<raw_change, rev_no, change_pc, change_error>>
    /\ UNCHANGED outsideChange

\* line 194: self._revisions has no revision of the number of the message
ChangeAddMessageRaises ==
    /\ change_pc = "messages"
    /\ msg_no < Len(raw_change[1].messages)
    /\ raw_change[1].messages[msg_no + 1].revision_number
           \notin DOMAIN change_revisions
    /\ change_pc' = "error"
    /\ change_error' = "KeyError"
    /\ UNCHANGED <<raw_change, change_revisions, rev_no, msg_no>>
    /\ UNCHANGED outsideChange

\* the messages are exhausted: __init__ returns
ChangeReturns ==
    /\ change_pc = "messages"
    /\ msg_no = Len(raw_change[1].messages)
    /\ change_pc' = "done"
    /\ UNCHANGED <<raw_change, change_revisions, rev_no, msg_no, change_error>>
    /\ UNCHANGED outsideChange

ChangeNext ==
    \/ ChangeAddRevision
    \/ ChangeRevisionsDone
    \/ ChangeAddMessage
    \/ ChangeAddMessageRaises
    \/ ChangeReturns

SpecChange == ChangeInit /\ [][ChangeNext]_vars

\* ================================================= zing_stats.py: main
\* main, lines 198-232, and generate_dataframes, lines 250-270: the two
\* sources are gathered, then aggregated, Gerrit first.  What is followed
\* here is the order of the requests, of the stores and of the aggregation
\* steps; one project a source, one entity a page, and the entities listed
\* are those that pass the filters, the cap and the cutoff of the gathering
\* (these are in Spec and SpecPrs).
MaxMainItems == 2      \* entities a source lists, and their ids

MainIds == 1..MaxMainItems

\* no Gerrit project (line 204) is the empty listing
GerritListings == SeqsUpTo(MainIds, MaxMainItems)

\* a page of the PR listing: a 404 (line 374) or a PR with its id
GithubPage == [status_code : {404}, id : {0}] \cup [status_code : {200}, id : MainIds]

\* no GitHub project (line 221) is the empty listing
GithubListings == SeqsUpTo(GithubPage, MaxMainItems)

\* the change of the page-th page, as gather hands it to Changes.add
MainChange(long_id, page) == [long_id |-> long_id, page |-> page]

\* the PR of the page-th page as response.json() gives it: the keys
\* parse_pr adds are not there yet
MainPr(id, page) ==
    [id |-> id, page |-> page, created_dt |-> << >>, updated_dt |-> << >>,
     commits |-> << >>, comments |-> << >>]

NeverStoredBefore(long_id) == FALSE

\* changes.py line 107: change.long_id in self.changes
StoredBefore(long_id) == long_id \in DOMAIN gerrit_changes

\* session.get(...) is called: one more request is out
Issued(n) == n + 1

\* session.get(...) returns: the request is answered
Answered(n) == n - 1

MainInit ==
    /\ GatherIdle
    /\ StatsIdle
    /\ PrsIdle
    /\ ParserIdle
    /\ CiIdle
    /\ ChangeIdle
    /\ start_dt = 0
    /\ main_gerrit \in GerritListings
    /\ main_github \in GithubListings
    /\ gerrit_changes = << >> /\ github_prs = << >>
    /\ main_requests = << >> /\ in_flight = 0
    /\ main_no = 0 /\ main_taken = {} /\ main_pr = 0 /\ main_parsed = 0
    /\ main_pc = "gather"

outsideMain == <<gatherVars, statsVars, prsVars, parserVars, ciVars, changeVars>>

\* changes.py line 87: the request for the next page of changes
MainGatherRequest ==
    /\ main_pc = "gather"
    /\ in_flight = 0
    /\ main_no < Len(main_gerrit)
    /\ in_flight' = Issued(in_flight)
    /\ main_requests' = Append(main_requests, "changes")
    /\ UNCHANGED <<main_gerrit, main_github, gerrit_changes, github_prs, main_no,
                   main_taken, main_pr, main_parsed, main_pc>>
    /\ UNCHANGED outsideMain

\* changes.py lines 90-125: the page is answered and its change stored,
\* unless a change of its long_id is stored already
MainGatherResponse ==
    /\ main_pc = "gather"
    /\ in_flight > 0
    /\ in_flight' = Answered(in_flight)
    /\ LET long_id == main_gerrit[main_no + 1] IN
       gerrit_changes' =
           IF StoredBefore(long_id) THEN gerrit_changes
           ELSE Put(gerrit_changes, long_id, MainChange(long_id, main_no + 1))
    /\ main_no' = main_no + 1
    /\ UNCHANGED <<main_gerrit, main_github, github_prs, main_requests,
                   main_taken, main_pr, main_parsed, main_pc>>
    /\ UNCHANGED outsideMain

\* lines 204-219: gather has returned, or there is no Gerrit project
MainGatherReturns ==
    /\ main_pc = "gather"
    /\ in_flight = 0
    /\ main_no = Len(main_gerrit)
    /\ main_pc' = "gather_github_prs"
    /\ main_no' = 0
    /\ UNCHANGED <<main_gerrit, main_github, gerrit_changes, github_prs,
                   main_requests, in_flight, main_taken, main_pr, main_parsed>>
    /\ UNCHANGED outsideMain

\* lines 365-372: the request for the next page of PRs
MainPullsRequest ==
    /\ main_pc = "gather_github_prs"
    /\ in_flight = 0
    /\ main_no < Len(main_github)
    /\ in_flight' = Issued(in_flight)
    /\ main_requests' = Append(main_requests, "pulls")
    /\ UNCHANGED <<main_gerrit, main_github, gerrit_changes, github_prs, main_no,
                   main_taken, main_pr, main_parsed, main_pc>>
    /\ UNCHANGED outsideMain

\* lines 386-415: the page is answered and its PR stored at its id
MainPullsListed ==
    /\ main_pc = "gather_github_prs"
    /\ in_flight > 0
    /\ main_github[main_no + 1].status_code = 200
    /\ in_flight' = Answered(in_flight)
    /\ LET id == main_github[main_no + 1].id IN
       github_prs' = Put(github_prs, id, MainPr(id, main_no + 1))
    /\ main_no' = main_no + 1
    /\ UNCHANGED <<main_gerrit, main_github, gerrit_changes, main_requests,
                   main_taken, main_pr, main_parsed, main_pc>>
    /\ UNCHANGED outsideMain

\* lines 374-385: the page is answered 404, prs.pop(project) leaves nothing of
\* the project, and the listing is over
MainPullsNotFound ==
    /\ main_pc = "gather_github_prs"
    /\ in_flight > 0
    /\ main_github[main_no + 1].status_code = 404
    /\ in_flight' = Answered(in_flight)
    /\ github_prs' = << >>
    /\ main_no' = Len(main_github)
    /\ UNCHANGED <<main_gerrit, main_github, gerrit_changes, main_requests,
                   main_taken, main_pr, main_parsed, main_pc>>
    /\ UNCHANGED outsideMain

\* lines 221-230, 256-257: gather_github_prs has returned, or there is no
\* GitHub project; generate_dataframes starts with the Gerrit changes
MainGatherPrsReturns ==
    /\ main_pc = "gather_github_prs"
    /\ in_flight = 0
    /\ main_no = Len(main_github)
    /\ main_pc' = "parse_change"
    /\ UNCHANGED <<main_gerrit, main_github, gerrit_changes, github_prs,
                   main_requests, in_flight, main_no, main_taken, main_pr,
                   main_parsed>>
    /\ UNCHANGED outsideMain

\* lines 456-460 with parse_change, lines 483-514: the next change is counted
MainParseChange(long_id) ==
    /\ main_pc = "parse_change"
    /\ long_id \in (DOMAIN gerrit_changes) \ main_taken
    /\ main_taken' = main_taken \cup {long_id}
    /\ main_parsed' = main_parsed + 1
    /\ UNCHANGED <<main_gerrit, main_github, gerrit_changes, github_prs,
                   main_requests, in_flight, main_no, main_pr, main_pc>>
    /\ UNCHANGED outsideMain

\* lines 462-480, 260: parse_change_stats returns, parse_ci_stats is called
MainParseChangeStatsReturns ==
    /\ main_pc = "parse_change"
    /\ main_taken = DOMAIN gerrit_changes
    /\ main_pc' = "parse_ci_stats"
    /\ main_taken' = {}
    /\ UNCHANGED <<main_gerrit, main_github, gerrit_changes, github_prs,
                   main_requests, in_flight, main_no, main_pr, main_parsed>>
    /\ UNCHANGED outsideMain

\* lines 613-711: the messages of the next change are gone through
MainParseCi(long_id) ==
    /\ main_pc = "parse_ci_stats"
    /\ long_id \in (DOMAIN gerrit_changes) \ main_taken
    /\ main_taken' = main_taken \cup {long_id}
    /\ main_parsed' = main_parsed + 1
    /\ UNCHANGED <<main_gerrit, main_github, gerrit_changes, github_prs,
                   main_requests, in_flight, main_no, main_pr, main_pc>>
    /\ UNCHANGED outsideMain

\* lines 713-721, 263-265: parse_ci_stats returns, parse_change_stats is
\* called on the PRs
MainParseCiStatsReturns ==
    /\ main_pc = "parse_ci_stats"
    /\ main_taken = DOMAIN gerrit_changes
    /\ main_pc' = "parse_pr"
    /\ main_taken' = {}
    /\ UNCHANGED <<main_gerrit, main_github, gerrit_changes, github_prs,
                   main_requests, in_flight, main_no, main_pr, main_parsed>>
    /\ UNCHANGED outsideMain

\* parse_pr, lines 519-531: the datetimes are put on the PR and its commits
\* are asked for
MainParsePr(id) ==
    /\ main_pc = "parse_pr"
    /\ main_pr = 0
    /\ in_flight = 0
    /\ id \in (DOMAIN github_prs) \ main_taken
    /\ main_pr' = id
    /\ github_prs' = [github_prs EXCEPT ![id].created_dt = <<"datetime">>,
                                        ![id].updated_dt = <<"datetime">>]
    /\ in_flight' = Issued(in_flight)
    /\ main_requests' = Append(main_requests, "commits")
    /\ UNCHANGED <<main_gerrit, main_github, gerrit_changes, main_no,
                   main_taken, main_parsed, main_pc>>
    /\ UNCHANGED outsideMain

\* the PR counted as soon as its commits are answered, its comments still
\* asked for
MainCommitsFetchedAndCounted ==
    /\ main_pc = "parse_pr"
    /\ main_pr # 0
    /\ github_prs[main_pr].commits = << >>
    /\ in_flight > 0
    /\ github_prs' = [github_prs EXCEPT ![main_pr].commits = <<"commits">>]
    /\ in_flight' = Issued(Answered(in_flight))
    /\ main_requests' = Append(main_requests, "comments")
    /\ main_parsed' = main_parsed + 1
    /\ UNCHANGED <<main_gerrit, main_github, gerrit_changes, main_no,
                   main_taken, main_pr, main_pc>>
    /\ UNCHANGED outsideMain

\* parse_pr, lines 531-536: the commits are answered and put on the PR, and
\* its comments are asked for
MainCommitsFetched ==
    /\ main_pc = "parse_pr"
    /\ main_pr # 0
    /\ github_prs[main_pr].commits = << >>
    /\ in_flight > 0
    /\ github_prs' = [github_prs EXCEPT ![main_pr].commits = <<"commits">>]
    /\ in_flight' = Issued(Answered(in_flight))
    /\ main_requests' = Append(main_requests, "comments")
    /\ UNCHANGED <<main_gerrit, main_github, gerrit_changes, main_no,
                   main_taken, main_pr, main_parsed, main_pc>>
    /\ UNCHANGED outsideMain

\* parse_pr, lines 536-583: the comments are answered and put on the PR, and
\* the PR is counted
MainCommentsFetched ==
    /\ main_pc = "parse_pr"
    /\ main_pr # 0
    /\ github_prs[main_pr].commits # << >>
    /\ in_flight > 0
    /\ github_prs' = [github_prs EXCEPT ![main_pr].comments = <<"comments">>]
    /\ in_flight' = Answered(in_flight)
    /\ main_taken' = main_taken \cup {main_pr}
    /\ main_parsed' = main_parsed + 1
    /\ main_pr' = 0
    /\ UNCHANGED <<main_gerrit, main_github, gerrit_changes, main_requests,
                   main_no, main_pc>>
    /\ UNCHANGED outsideMain

\* lines 462-480, 266: parse_change_stats returns, parse_pr_ci_stats is called
MainParsePrStatsReturns ==
    /\ main_pc = "parse_pr"
    /\ main_pr = 0
    /\ main_taken = DOMAIN github_prs
    /\ main_pc' = "parse_pr_ci_stats"
    /\ main_taken' = {}
    /\ UNCHANGED <<main_gerrit, main_github, gerrit_changes, github_prs,
                   main_requests, in_flight, main_no, main_pr, main_parsed>>
    /\ UNCHANGED outsideMain

\* lines 738-829: the comments of the next PR are gone through
MainParsePrCi(id) ==
    /\ main_pc = "parse_pr_ci_stats"
    /\ id \in (DOMAIN github_prs) \ main_taken
    /\ main_taken' = main_taken \cup {id}
    /\ main_parsed' = main_parsed + 1
    /\ UNCHANGED <<main_gerrit, main_github, gerrit_changes, github_prs,
                   main_requests, in_flight, main_no, main_pr, main_pc>>
    /\ UNCHANGED outsideMain

\* lines 831-843, 270: parse_pr_ci_stats and generate_dataframes return
MainGenerateDataframesReturns ==
    /\ main_pc = "parse_pr_ci_stats"
    /\ main_taken = DOMAIN github_prs
    /\ main_pc' = "done"
    /\ UNCHANGED <<main_gerrit, main_github, gerrit_changes, github_prs,
                   main_requests, in_flight, main_no, main_taken, main_pr,
                   main_parsed>>
    /\ UNCHANGED outsideMain

MainParseChangeTaken == \E long_id \in MainIds : MainParseChange(long_id)

MainParseCiTaken == \E long_id \in MainIds : MainParseCi(long_id)

MainParsePrTaken == \E id \in MainIds : MainParsePr(id)

MainParsePrCiTaken == \E id \in MainIds : MainParsePrCi(id)

MainNext ==
    \/ MainGatherRequest
    \/ MainGatherResponse
    \/ MainGatherReturns
    \/ MainPullsRequest
    \/ MainPullsListed
    \/ MainPullsNotFound
    \/ MainGatherPrsReturns
    \/ MainParseChangeTaken
    \/ MainParseChangeStatsReturns
    \/ MainParseCiTaken
    \/ MainParseCiStatsReturns
    \/ MainParsePrTaken
    \/ MainCommitsFetched
    \/ MainCommentsFetched
    \/ MainParsePrStatsReturns
    \/ MainParsePrCiTaken
    \/ MainGenerateDataframesReturns

SpecMain == MainInit /\ [][MainNext]_vars

\* ============================================================ termination
\* gather and gather_github_prs run in one thread without waiting for
\* anything but the answers of the backend, which come: a step that can be
\* taken is taken.  The behaviours start in gather or in gather_github_prs.
SpecTerminates ==
    /\ Init \/ PrsInit
    /\ [][Next \/ PrsNext]_vars
    /\ WF_vars(Next)
    /\ WF_vars(PrsNext)

\* ================================================================== claims
\* What the claims speak of, written on the raw items and the state, apart
\* from the definitions above.
Item == results[idx]

PassesFilters(c) ==
    /\ projects = {} \/ c.project \in projects
    /\ branches = {} \/ c.branch \in branches

Stored == {changes[k] : k \in DOMAIN changes}

CountReached == max_changes # 0 /\ Cardinality(DOMAIN changes) >= max_changes

\* The for loop was left by break: gather returns without another request.
BreakEndsGather ==
    (pc = "endpage" /\ idx <= Len(results)) =>
        (pc' = "done" /\ changes' = changes /\ requests' = requests)

\* ---------------------------------------------------------------------- C1
C1Pre ==
    /\ max_changes = 0
    /\ \A i, j \in 1..Len(stream) : i # j => stream[i].id # stream[j].id
    /\ \A i \in 1..Len(stream) : PassesFilters(stream[i])

\* C1: for a stream in non-increasing updated order without duplicate ids,
\* all of it passing the filters, and no cap, once gather has returned the
\* stored changes are exactly the changes of the stream with
\* updated_dt >= start_dt, whatever the page size.
C1_StoredIsExactlyTheRecentPrefix ==
    (pc = "done" /\ C1Pre) =>
        Stored = {GerritChange(stream[i]) :
                    i \in {j \in 1..Len(stream) : stream[j].updated >= start_dt}}

\* A two-page gather: the first page's change is stored, the second page's
\* change is older than start_dt and left out.
C1_Witness ==
    /\ pc = "done" /\ C1Pre /\ projects # {} /\ branches # {}
    /\ Len(stream) = 2 /\ Len(requests) = 2
    /\ stream[1].updated >= start_dt /\ stream[2].updated < start_dt
    /\ Stored = {GerritChange(stream[1])}

\* ---------------------------------------------------------------------- C2
\* C2: scanning a change that passes the filters, is not stored yet and is
\* strictly older than start_dt stores nothing, leaves the rest of the page
\* unscanned and ends gather with no further request, whatever
\* _more_changes the page carried.
C2_CutoffEndsGather ==
    [][/\ (/\ pc = "scan" /\ PassesFilters(Item)
           /\ Item.id \notin DOMAIN changes /\ Item.updated < start_dt)
          => /\ changes' = changes /\ idx' = idx /\ requests' = requests
             /\ pc' = "endpage"
             /\ ~results'[Len(results')].more_changes
       /\ BreakEndsGather
       /\ pc = "done" => FALSE]_vars

\* gather returned at a too old change although the backend had flagged the
\* page _more_changes.
C2_Witness ==
    /\ pc = "done" /\ max_changes = 0 /\ idx <= Len(results)
    /\ PassesFilters(Item) /\ Item.updated < start_dt
    /\ Item.id \notin DOMAIN changes
    /\ BackendPage(stream, Len(requests) * query_size - query_size,
                   query_size)[Len(results)].more_changes
    /\ query_start = Len(requests) * query_size

\* ---------------------------------------------------------------------- C3
\* C3: a change whose long_id is already stored is skipped and the scan goes
\* on with the next item (the page and its continuation flag untouched); a
\* stored change is never replaced or dropped, and each is stored under its
\* own long_id.
C3_DuplicateSkippedFirstKept ==
    [][/\ (pc = "scan" /\ PassesFilters(Item) /\ Item.id \in DOMAIN changes)
          => /\ changes' = changes /\ results' = results
             /\ idx' = idx + 1 /\ pc' \in {"scan", "endpage"}
             /\ requests' = requests
       /\ \A k \in DOMAIN changes : k \in DOMAIN changes' /\ changes'[k] = changes[k]
       /\ \A k \in DOMAIN changes' : changes'[k].long_id = k]_vars

\* On a later page a change came again under a stored long_id with another
\* updated time, and was skipped.
C3_Witness ==
    /\ pc = "endpage" /\ Len(requests) = 2 /\ idx = Len(results) + 1
    /\ PassesFilters(results[Len(results)])
    /\ results[Len(results)].id \in DOMAIN changes
    /\ changes[results[Len(results)].id] # GerritChange(results[Len(results)])
    /\ changes[results[Len(results)].id] = GerritChange(stream[1])

\* ---------------------------------------------------------------------- C4
\* The first occurrences of the changes that pass the filters, at or after
\* start_dt.
Qualifying ==
    {i \in 1..Len(stream) :
        /\ PassesFilters(stream[i])
        /\ stream[i].updated >= start_dt
        /\ \A j \in 1..(i - 1) :
            ~(stream[j].id = stream[i].id /\ PassesFilters(stream[j]))}

FirstOf(Q, m) == {i \in Q : Cardinality({j \in Q : j < i}) < m}

\* C4: with max_changes = m >= 1 never more than m changes are stored, and
\* when the stream holds more than m qualifying changes gather returns with
\* exactly the first m of them.
C4_CapBoundsStored ==
    /\ max_changes >= 1 => Cardinality(DOMAIN changes) <= max_changes
    /\ (pc = "done" /\ max_changes >= 1 /\ Cardinality(Qualifying) > max_changes)
        => Stored = {GerritChange(stream[i]) : i \in FirstOf(Qualifying, max_changes)}

\* max_changes = 1, two qualifying changes in one page, one stored.
C4_Witness ==
    /\ pc = "done" /\ max_changes = 1 /\ query_size >= 2
    /\ Qualifying = {1, 2}
    /\ Stored = {GerritChange(stream[1])}

\* ---------------------------------------------------------------------- C5
\* C5 as claimed: once the number of stored changes has reached max_changes
\* no page is requested any more.
C5_NoRequestOnceCapReached ==
    [][CountReached => requests' = requests]_vars

\* C5 as amended: the cap is looked at only when a change that passes the
\* filters and is not stored yet is scanned; if the count has reached
\* max_changes then, nothing is stored, the rest of the page is left
\* unscanned and gather returns without a further request whatever
\* _more_changes the page carried.  Until such a change is scanned a page
\* scanned to its end is followed by the next page when it was flagged
\* _more_changes, the count having reached max_changes or not.
C5_CapEndsGatherAtNextQualifying ==
    [][/\ (/\ pc = "scan" /\ PassesFilters(Item)
           /\ Item.id \notin DOMAIN changes /\ CountReached)
          => /\ changes' = changes /\ idx' = idx /\ requests' = requests
             /\ pc' = "endpage"
             /\ ~results'[Len(results')].more_changes
       /\ BreakEndsGather
       /\ (/\ pc = "endpage" /\ idx > Len(results) /\ Len(results) > 0
           /\ results[Len(results)].more_changes)
          => pc' = "request"
       /\ pc = "request" => requests' = Append(requests, query_start)]_vars

\* The cap was reached by the last change of the first page, the second
\* page was requested all the same, and its first change ended gather.
C5_Witness ==
    /\ pc = "done" /\ Len(requests) = 2 /\ max_changes = 1
    /\ Cardinality(DOMAIN changes) = 1 /\ idx <= Len(results)
    /\ PassesFilters(Item) /\ Item.id \notin DOMAIN changes
    /\ Item.updated >= start_dt

\* ---------------------------------------------------------------------- C6
\* C6 as claimed: after a page that decodes to the empty list gather returns
\* normally, nothing stored, no error.
C6_EmptyPageReturnsNormally ==
    [][(pc = "endpage" /\ Len(results) = 0)
        => (pc' = "done" /\ error' = "none" /\ changes' = << >>)]_vars

\* The only page decoded to the empty list, and the while test raised.
C6_Witness ==
    /\ pc = "error" /\ error = "IndexError"
    /\ Len(requests) = 1 /\ results = << >> /\ changes = << >>

FilteredOut(c) ==
    \/ projects # {} /\ c.project \notin projects
    \/ branches # {} /\ c.branch \notin branches

\* C8: scanning a change that a non-empty filter leaves out changes nothing
\* but the position in the page: nothing is stored, the page keeps its
\* continuation flag, no request is made and gather does not return at it,
\* be the change older than start_dt or the cap reached.  With both filters
\* empty no change is left out: a change not stored yet, at or after
\* start_dt, below the cap, is stored.
C8_FilteredChangeHasNoEffect ==
    [][/\ (pc = "scan" /\ FilteredOut(Item))
          => /\ changes' = changes /\ results' = results
             /\ query_start' = query_start /\ requests' = requests
             /\ error' = error
             /\ idx' = idx + 1 /\ pc' \in {"scan", "endpage"}
       /\ (/\ pc = "scan" /\ projects = {} /\ branches = {}
           /\ Item.id \notin DOMAIN changes /\ Item.updated >= start_dt
           /\ ~CountReached)
          => (Item.id \in DOMAIN changes' /\ changes'[Item.id] = GerritChange(Item))]_vars

\* A change of another project, older than start_dt, was passed over with
\* nothing stored, and the scan went on in the same page.
C8_Witness ==
    /\ pc = "scan" /\ idx = 2
    /\ FilteredOut(results[1]) /\ results[1].updated < start_dt
    /\ changes = << >>

\* ---------------------------------------------------------------------- C9
\* C9: when a response does not decode, gather ends with the error, the
\* stored changes as they were; nothing follows: no retry, no later page.
C9_UndecodablePageAborts ==
    [][/\ (pc = "request" /\ pc' # "scan" /\ pc' # "endpage")
          => (pc' = "error" /\ error' = "ValueError" /\ changes' = changes)
       /\ pc = "error" => FALSE]_vars

\* The second page did not decode; the change of the first page is stored.
C9_Witness ==
    /\ pc = "error" /\ error = "ValueError"
    /\ Len(requests) = 2 /\ Cardinality(DOMAIN changes) = 1

\* --------------------------------------------------------------------- C10
\* C10 as claimed: a MERGED change that came without 'submitted' has its
\* updated time for merged time, and parse_change goes through it without
\* error: when that time is not older than start_dt the change is counted
\* as merged there, with its revisions and its lifespan.
C10_MissingSubmittedUsesUpdated ==
    (/\ change_json # << >>
     /\ change_json[1].status = "MERGED"
     /\ change_json[1].submitted = << >>)
    => /\ stats_error = "none"
       /\ cur_change[1].merged_dt = <<change_json[1].updated>>
       /\ change_json[1].updated >= start_dt =>
            /\ change_json[1].updated \in DOMAIN merged
            /\ change_json[1].updated \in DOMAIN revisions
            /\ change_json[1].updated \in DOMAIN lifespan_sec

\* A MERGED change without 'submitted', updated at or after start_dt, was
\* given to parse_change, which raised at the comparison of its merged_dt.
C10_Witness ==
    /\ change_json # << >>
    /\ change_json[1].status = "MERGED" /\ change_json[1].submitted = << >>
    /\ change_json[1].updated >= start_dt
    /\ cur_change[1].merged_dt = << >>
    /\ stats_pc = "error" /\ stats_error = "TypeError"
    /\ change_json[1].updated \notin DOMAIN merged

\* --------------------------------------------------------------------- C11
Range(f) == {f[k] : k \in DOMAIN f}

RECURSIVE SumOfSizes(_, _)
SumOfSizes(d, keys) ==
    IF keys = {} THEN 0
    ELSE LET k == CHOOSE x \in keys : TRUE
         IN  Cardinality(DOMAIN d[k]) + SumOfSizes(d, keys \ {k})

IsRun(t, first) ==
    \E k \in (first + 1)..(Len(t) - 2) :
        /\ t[first].k = "BUILD"
        /\ \A x \in (first + 1)..k : t[x].k \in NonSpaceKinds
        /\ t[k + 1].k \in SpaceKinds

MatchesGerritRun(t) ==
    /\ Len(t) >= 9
    /\ <<t[1].k, t[2].k, t[3].k, t[4].k>> = <<"PS", "num", "COLON", "VER">>
    /\ \E i \in 5..Len(t) : \E j \in (i + 1)..Len(t) :
        /\ \A x \in 5..i : t[x].k \in NonSpaceKinds
        /\ \A x \in (i + 1)..j : t[x].k \in SpaceKinds
        /\ IsRun(t, j + 1)

\* The run grammar of parse_pr_message: "Build <non-blanks><blanks><anything>"
MatchesPrRun(t) == Len(t) >= 4 /\ IsRun(t, 1)

\* C12: a text that does not match the run grammar from its first character
\* gives the empty run, and no error, from parse_ci_job_comments and from
\* parse_pr_message.
C12_NoRunWithoutMatch ==
    /\ (parser_pc = "parse_ci_job_comments" /\ ~MatchesGerritRun(parser_text))
        => (run = << >> /\ parser_error = "none")
    /\ (parser_pc = "parse_pr_message" /\ ~MatchesPrRun(parser_text))
        => (run = << >> /\ parser_error = "none")

\* a Gerrit message that is a run but for the "!" it starts with, and that has
\* a job with something after its time, has been parsed: the result is the
\* empty run and no error
C12_Witness ==
    /\ parser_pc = "parse_ci_job_comments"
    /\ Len(parser_text) > 1
    /\ parser_text[1].k = "X"
    /\ MatchesGerritRun(Tail(parser_text))
    /\ parse_ci_job_comments(Tail(parser_text)).error = "Exception"
    /\ run = << >>
    /\ parser_error = "none"

\* The time a text states, read off its tokens: each number followed by "h",
\* "m" or "s" counts 3600, 60 or 1 seconds per unit.
UnitSec(tok) ==
    CASE tok.k = "H" -> 3600
      [] tok.k = "M" -> 60
      [] tok.k = "S" -> 1
      [] OTHER -> 0

RECURSIVE StatedSec(_, _)
StatedSec(t, i) ==
    IF i >= Len(t) THEN 0
    ELSE (IF t[i].k = "num" THEN t[i].n * UnitSec(t[i + 1]) ELSE 0)
         + StatedSec(t, i + 1)

\* the job reports of a text
JobReports(t) == Cardinality({i \in 1..Len(t) : t[i].k \in {"SEG1", "SEG2"}})

RECURSIVE SumTotalSec(_, _)
SumTotalSec(jobs, k) ==
    IF k > Len(jobs) THEN 0 ELSE jobs[k].total_sec + SumTotalSec(jobs, k + 1)

Parsed == parser_pc \in {"parse_ci_job_comments", "parse_pr_message"}

\* C13: the total_sec of a job is hours * 3600 + minutes * 60 + seconds, a
\* component that is absent counting 0, and is never negative: when every job
\* report of the text made a job, the jobs' total_sec are, together, the
\* seconds the text states, and that of a single job is what its line states.
C13_TotalSecIsHoursMinutesSeconds ==
    (Parsed /\ run # << >>) =>
        LET jobs == run[1].jobs IN
        /\ \A k \in 1..Len(jobs) : jobs[k].total_sec >= 0
        /\ Len(jobs) = JobReports(parser_text)
            => SumTotalSec(jobs, 1) = StatedSec(parser_text, 1)

\* "1h 2m 3s" gave 3723
C13_Witness ==
    /\ Parsed
    /\ run # << >>
    /\ Len(run[1].jobs) = 1
    /\ JobReports(parser_text) = 1
    /\ \E i \in 1..(Len(parser_text) - 7) :
        SubSeq(parser_text, i, i + 7) =
            <<Num(1), Tok("H"), Tok("SP"), Num(2), Tok("M"), Tok("SP"),
              Num(3), Tok("S")>>
    /\ run[1].jobs[1].total_sec = 3723

\* Where the time of a job report that starts at token p ends: the position
\* after "<n>h ", "<n>m " (each optional), "<n>s" and the optional
\* non-voting marker; 0 when no time starts at p.
Unit(t, p, u) == p + 1 <= Len(t) /\ t[p].k = "num" /\ t[p + 1].k = u

Spaced(t, p, u) == Unit(t, p, u) /\ p + 2 <= Len(t) /\ t[p + 2].k = "SP"

AfterHours(t, p) == IF Spaced(t, p, "H") THEN p + 3 ELSE p

AfterMinutes(t, p) ==
    IF Spaced(t, AfterHours(t, p), "M") THEN AfterHours(t, p) + 3
    ELSE AfterHours(t, p)

AfterTime(t, p) ==
    LET q == AfterMinutes(t, p) IN
    IF ~Unit(t, q, "S") THEN 0
    ELSE IF q + 2 <= Len(t) /\ t[q + 2].k = "NV" THEN q + 3 ELSE q + 2

\* a line of the text is a job report, its time and its optional non-voting
\* marker, and then something more before the line ends
TextLeftAfterJob(t) ==
    \E i \in 1..(Len(t) - 2) :
        /\ i = 1 \/ t[i - 1].k = "NL"
        /\ <<t[i].k, t[i + 1].k>> = <<"DASH", "HTTP">>
        /\ t[i + 2].k \in {"SEG1", "SEG2"}
        /\ AfterTime(t, i + 3) # 0
        /\ AfterTime(t, i + 3) <= Len(t)
        /\ t[AfterTime(t, i + 3)].k # "NL"

\* C14: when a job line of a message matching the run grammar has any text
\* left after the optional non-voting marker, parsing the message raises and
\* returns no run; the line is never silently dropped or accepted.
C14_TextLeftAfterJobRaises ==
    /\ (parser_pc = "parse_ci_job_comments" /\ MatchesGerritRun(parser_text)
            /\ TextLeftAfterJob(parser_text))
        => (parser_error = "Exception" /\ run = << >>)
    /\ (parser_pc = "parse_pr_message" /\ MatchesPrRun(parser_text)
            /\ TextLeftAfterJob(parser_text))
        => (parser_error = "Exception" /\ run = << >>)

\* a Gerrit message with a job line that goes on after its time has been
\* parsed: no error, and a run is returned
C14_Witness ==
    /\ parser_pc = "parse_ci_job_comments"
    /\ MatchesGerritRun(parser_text)
    /\ TextLeftAfterJob(parser_text)
    /\ parser_error = "none"
    /\ run # << >>

\* The text after its patch-set-number prefix "Patch Set <digits>:\n\n", the
\* whole text when it has none.
PatchSetPrefixed(t) ==
    /\ Len(t) >= 5
    /\ <<t[1].k, t[2].k, t[3].k, t[4].k, t[5].k>> = <<"PS", "num", "COLON", "NL", "NL">>

\* "Promotion review <something on the line> has brought into alpha channel"
SuccessPreambleAt(t, p) ==
    /\ p <= Len(t)
    /\ t[p].k = "PROMO1"
    /\ \E j \in (p + 2)..Len(t) :
        /\ t[j].k = "PROMO2"
        /\ \A x \in (p + 1)..(j - 1) : t[x].k # "NL"

\* "PROMOTION FAILURE\n\nPromotion of artifacts from this change into Alpha
\* channel has failed"
FailurePreambleAt(t, p) ==
    /\ p + 3 <= Len(t)
    /\ <<t[p].k, t[p + 1].k, t[p + 2].k, t[p + 3].k>> = <<"PF1", "NL", "NL", "PF2">>

BeginsWithSuccess(t) ==
    SuccessPreambleAt(t, 1) \/ (PatchSetPrefixed(t) /\ SuccessPreambleAt(t, 6))

BeginsWithFailure(t) ==
    FailurePreambleAt(t, 1) \/ (PatchSetPrefixed(t) /\ FailurePreambleAt(t, 6))

\* C15: parse_promotion_success matches only a text that begins, after an
\* optional patch-set-number prefix, with the success preamble,
\* parse_promotion_failure only one that begins with the failure preamble; a
\* text with neither preamble is matched by neither, and no text by both.
C15_PromotionPreamblesOnly ==
    parser_pc = "parse_promotion" =>
        /\ promotion_succeeded => BeginsWithSuccess(parser_text)
        /\ promotion_failed => BeginsWithFailure(parser_text)
        /\ (~BeginsWithSuccess(parser_text) /\ ~BeginsWithFailure(parser_text))
            => (~promotion_succeeded /\ ~promotion_failed)
        /\ ~(promotion_succeeded /\ promotion_failed)

\* a text with the failure preamble first and the success preamble on a later
\* line: the failure detector matched, the success detector did not
C15_Witness ==
    /\ parser_pc = "parse_promotion"
    /\ BeginsWithFailure(parser_text)
    /\ \E p \in 2..Len(parser_text) : SuccessPreambleAt(parser_text, p)
    /\ promotion_failed
    /\ ~promotion_succeeded

\* d[t] of a defaultdict(int), without adding the key
Get(d, t) == IF t \in DOMAIN d THEN d[t] ELSE 0

Max(a, b) == IF a > b THEN a ELSE b

RECURSIVE LongestJob(_, _)
LongestJob(jobs, k) ==
    IF k > Len(jobs) THEN 0 ELSE Max(jobs[k].total_sec, LongestJob(jobs, k + 1))

\* the step is the loop body of parse_ci_stats taking a message to its end
CiMessageTaken == ci_nmessages' = ci_nmessages + 1 /\ ci_error' = "none"

\* the run the message just taken holds: << >> when it holds none
TakenRun == CiParse(ci_kind, ci_message'[1].text).run

\* d' is d with n more at bucket b
AddedAt(d, b, n) == \A t \in Times : Get(d', t) = Get(d, t) + (IF t = b THEN n ELSE 0)

\* the message just taken holds a run, is not older than start_dt, and its
\* status is one of the success list
SucceededRunTaken ==
    /\ CiMessageTaken
    /\ TakenRun # << >>
    /\ ci_message'[1].message_dt >= start_dt
    /\ StatusIn(NormalisedStatus(TakenRun[1].status), CI_SUCCESS_STATUSES)

\* one merged change with one message, of a run that succeeded with one job
\* of 7 seconds, has been aggregated
SevenSecondScenario ==
    /\ ci_pc = "done"
    /\ ci_nchanges = 1
    /\ ci_nmessages = 1
    /\ ci_change[1].status = "MERGED"
    /\ ci_message[1].text = CiHeader(ci_kind, <<Tok("succeeded")>>) \o CiJob(7)
    /\ ci_message[1].message_dt >= start_dt

\* C16: a CI run classified as success adds exactly 1 to ci_success at the
\* updated timestamp of its change; when the change is MERGED the durations
\* of its jobs are added to ci_total_time_sec and folded into
\* ci_longest_time_sec at the merged timestamp of the change; a merged change
\* with one succeeded run of one 7-second job gives ci_success 1 at the updated
\* bucket, ci_total_time_sec 7 and ci_longest_time_sec 7 at the merged bucket.
C16_SuccessAtUpdatedTimesAtMerged ==
    /\ [][SucceededRunTaken =>
            /\ AddedAt(ci_success, ci_change[1].updated_dt, 1)
            /\ ci_change[1].status = "MERGED" =>
                LET bucket == ci_change[1].merged_dt[1] IN
                /\ AddedAt(ci_total_time_sec, bucket, SumTotalSec(TakenRun[1].jobs, 1))
                /\ \A t \in Times :
                    Get(ci_longest_time_sec', t) =
                        IF t = bucket
                        THEN Max(Get(ci_longest_time_sec, t),
                                 LongestJob(TakenRun[1].jobs, 1))
                        ELSE Get(ci_longest_time_sec, t)]_vars
    /\ [](SevenSecondScenario =>
            /\ \A t \in Times :
                Get(ci_success, t) = IF t = ci_change[1].updated_dt THEN 1 ELSE 0
            /\ \A t \in Times :
                /\ Get(ci_total_time_sec, t) =
                    IF t = ci_change[1].merged_dt[1] THEN 7 ELSE 0
                /\ Get(ci_longest_time_sec, t) =
                    IF t = ci_change[1].merged_dt[1] THEN 7 ELSE 0)

\* the scenario, on a Gerrit change merged before it was last updated, its
\* message older than the update: the success is at the updated bucket, the
\* 7 seconds at the merged bucket
C16_Witness ==
    /\ SevenSecondScenario
    /\ ci_kind = "gerrit"
    /\ ci_change[1].merged_dt[1] < ci_change[1].updated_dt
    /\ ci_message[1].message_dt < ci_change[1].updated_dt
    /\ Get(ci_success, ci_change[1].updated_dt) = 1
    /\ Get(ci_total_time_sec, ci_change[1].merged_dt[1]) = 7
    /\ Get(ci_longest_time_sec, ci_change[1].merged_dt[1]) = 7

\* the message just taken holds a run and is not older than start_dt
RunTaken ==
    /\ CiMessageTaken
    /\ TakenRun # << >>
    /\ ci_message'[1].message_dt >= start_dt

RECURSIVE SumOver(_, _)
SumOver(d, keys) ==
    IF keys = {} THEN 0
    ELSE LET k == CHOOSE x \in keys : TRUE IN d[k] + SumOver(d, keys \ {k})

\* the increments a dict has had, over all its buckets
Counted(d) == SumOver(d, DOMAIN d)

\* the status in lower case, without the tokens of kinds
Stripped(status, kinds) ==
    LET lowered == [i \in 1..Len(status) |->
                        IF status[i].k = "SUCCEEDED" THEN Tok("succeeded")
                        ELSE status[i]]
        Kept(tok) == tok.k \notin kinds
    IN  SelectSeq(lowered, Kept)

IsOneOf(status, words) == Len(status) = 1 /\ status[1].k \in words

\* the step counts the run of the given status as the claim says
ClassifiedAs(status) ==
    LET success == IsOneOf(status, {"succeeded", "successful", "ok"})
        failure == IsOneOf(status, {"failed"})
    IN  /\ success =>
            /\ Counted(ci_success') = Counted(ci_success) + 1
            /\ ci_failure' = ci_failure
        /\ failure =>
            /\ Counted(ci_failure') = Counted(ci_failure) + 1
            /\ ci_success' = ci_success
        /\ (~success /\ ~failure) =>
            UNCHANGED <<ci_success, ci_failure, ci_total_time_sec, ci_longest_time_sec>>
        /\ Counted(ci_success') + Counted(ci_failure')
            <= Counted(ci_success) + Counted(ci_failure) + 1

\* C17 as stated: the status of a run that passes the cutoff test is put in
\* lower case and stripped of its non-alphanumeric characters; succeeded,
\* successful and ok count in ci_success only, failed in ci_failure only, any
\* other status in neither and the run is skipped; no run counts in both, and
\* none more than once.
C17_StatusStrippedOfNonAlphanumerics ==
    [][RunTaken =>
        ClassifiedAs(Stripped(TakenRun[1].status, {"DOT", "COLON", "X", "US"}))]_vars

\* C17, amended: the same, the status stripped of every character that is not
\* a letter, a digit or an underscore: an underscore stays, and a status that
\* has one is of neither list.
C17_StatusStrippedOfNonWordCharacters ==
    [][RunTaken =>
        ClassifiedAs(Stripped(TakenRun[1].status, {"DOT", "COLON", "X"}))]_vars

\* a run of status "ok_", not older than start_dt, was the only message: it
\* has been skipped, nothing is counted
C17_Witness ==
    /\ ci_pc = "done"
    /\ ci_nmessages = 1
    /\ ci_message[1].text = CiHeader(ci_kind, <<Tok("ok"), Tok("US")>>) \o CiJob(1)
    /\ ci_message[1].message_dt >= start_dt
    /\ ci_change[1].status = "MERGED"
    /\ ci_success = << >> /\ ci_failure = << >>
    /\ ci_total_time_sec = << >> /\ ci_longest_time_sec = << >>

\* the status of the run just taken is of the success list or of the failure
\* list
KnownStatusTaken ==
    IsOneOf(Stripped(TakenRun[1].status, {"DOT", "COLON", "X"}),
            {"succeeded", "successful", "ok", "failed"})

\* C18: a parsed CI run whose message is strictly older than start_dt is
\* discarded before it is classified and changes none of ci_success,
\* ci_failure, ci_total_time_sec and ci_longest_time_sec; a run whose message
\* is at start_dt or after is classified.
C18_OlderRunDiscarded ==
    [][(CiMessageTaken /\ TakenRun # << >>) =>
        IF ci_message'[1].message_dt < start_dt
        THEN UNCHANGED <<ci_success, ci_failure, ci_total_time_sec,
                         ci_longest_time_sec>>
        ELSE KnownStatusTaken =>
                Counted(ci_success') + Counted(ci_failure')
                    = Counted(ci_success) + Counted(ci_failure) + 1]_vars

\* a run that succeeded, of a merged change, its message older than start_dt,
\* was the only message: nothing is counted
C18_Witness ==
    /\ ci_pc = "done"
    /\ ci_nmessages = 1
    /\ ci_message[1].text = CiHeader(ci_kind, <<Tok("succeeded")>>) \o CiJob(7)
    /\ ci_message[1].message_dt < start_dt
    /\ ci_change[1].status = "MERGED"
    /\ ci_change[1].updated_dt >= start_dt
    /\ ci_success = << >> /\ ci_failure = << >>
    /\ ci_total_time_sec = << >> /\ ci_longest_time_sec = << >>

\* parse_change has taken a change to its end
ChangeTaken == nparsed' = nparsed + 1 /\ stats_error' = "none"

\* 1 when the timestamp, << >> when the change has none, is t and not older
\* than start_dt
CountsAt(timestamp, t) ==
    IF timestamp = <<t>> /\ t >= start_dt THEN 1 ELSE 0

\* C19: when parse_change_stats returns, the created, updated and merged
\* counters at t are the numbers of changes whose created, updated and merged
\* timestamp is t and is not older than start_dt, merged for the changes of
\* status MERGED only: the counters start empty, each change taken adds its
\* own 1s and nothing else, and no other step changes them.
C19_CountersCountChanges ==
    /\ [](nparsed = 0 => (created = << >> /\ updated = << >> /\ merged = << >>))
    /\ [][stats_error' = "none" =>
            IF ChangeTaken
            THEN LET raw == change_json'[1] IN
                 \A t \in Times :
                    /\ Get(created', t) = Get(created, t) + CountsAt(<<raw.created>>, t)
                    /\ Get(updated', t) = Get(updated, t) + CountsAt(<<raw.updated>>, t)
                    /\ Get(merged', t) = Get(merged, t)
                        + (IF raw.status = "MERGED"
                           THEN CountsAt(raw.submitted, t) ELSE 0)
            ELSE UNCHANGED <<created, updated, merged>>]_vars

\* two changes went through and parse_change_stats returned: one created
\* before start_dt, updated and merged at it, one created and updated at
\* start_dt and not merged; the first one is not in the created counter
C19_Witness ==
    /\ stats_pc = "done"
    /\ nparsed = 2
    /\ start_dt = 1
    /\ change_json[1].status = "NEW"
    /\ change_json[1].created = 1
    /\ Get(created, 0) = 0 /\ Get(created, 1) = 1
    /\ Get(updated, 1) = 2
    /\ Get(merged, 1) = 1

\* the words a text has in it, whatever their case
WordsIn(text) ==
    CASE text = "Recheck" -> {"recheck"}
      [] text = "reverify" -> {"reverify"}
      [] text = "recheck, reverify" -> {"recheck", "reverify"}
      [] OTHER -> {}

\* parse_change has taken a message of the change it is on
MessageTaken == nmessages' = nmessages + 1

\* C20: recheck and reverify are counted for the messages of merged changes
\* only, at the merged timestamp of the change; a message counts in one of
\* the two at most: in recheck when its text has 'recheck' in it, whatever
\* the case, otherwise in reverify when it has 'reverify' (one with both
\* counts as a recheck only); the messages of changes that are not merged
\* count in neither.
C20_RecheckBeforeReverify ==
    [][IF MessageTaken
       THEN /\ cur_change[1].status = "MERGED"
            /\ cur_change[1].merged_dt # << >>
            /\ LET bucket == cur_change[1].merged_dt[1]
                   words == WordsIn(cur_message'[1])
               IN  IF "recheck" \in words
                   THEN AddedAt(recheck, bucket, 1) /\ reverify' = reverify
                   ELSE IF "reverify" \in words
                   THEN AddedAt(reverify, bucket, 1) /\ recheck' = recheck
                   ELSE recheck' = recheck /\ reverify' = reverify
       ELSE recheck' = recheck /\ reverify' = reverify]_vars

\* a message with both words, of a merged change: one recheck at the merged
\* timestamp, no reverify
C20_Witness ==
    /\ stats_pc = "messages"
    /\ nparsed = 1
    /\ nmessages = 1
    /\ cur_message = <<"recheck, reverify">>
    /\ cur_change[1].merged_dt[1] < cur_change[1].updated_dt
    /\ Get(recheck, cur_change[1].merged_dt[1]) = 1
    /\ reverify = << >>

\* ---------------------------------------------------------------------- C21
\* the step is the loop body of parse_ci_stats entered for one more message
CiMessageEntered == ci_nmessages' = ci_nmessages + 1

\* the change whose messages are gone through is merged
OfMergedChange == ci_change # << >> /\ ci_change[1].merged_dt # << >>

\* the message just taken holds a run
ParsedRunTaken == CiMessageTaken /\ TakenRun # << >>

\* the run just taken is counted: it is not older than start_dt and its
\* status is of the success list or of the failure list
CountedRunTaken == RunTaken /\ KnownStatusTaken

\* C21 as stated: every parsed CI run of a merged change adds the total_sec
\* of all its jobs to ci_total_time_sec at the merged timestamp of the change,
\* and nothing else changes ci_total_time_sec.
C21_EveryParsedRunOfMergedAdds ==
    [][IF ParsedRunTaken /\ OfMergedChange
       THEN AddedAt(ci_total_time_sec, ci_change[1].merged_dt[1],
                    SumTotalSec(TakenRun[1].jobs, 1))
       ELSE \A t \in Times : Get(ci_total_time_sec', t) = Get(ci_total_time_sec, t)]_vars

\* C21: ci_total_time_sec starts empty; a CI run of a merged change that is
\* not older than start_dt and whose status is of the success list or of the
\* failure list adds the total_sec of all its jobs at the merged timestamp of
\* the change; every other step (a run of a change that is not merged, a run
\* older than start_dt, a run of another status, a message without a run)
\* leaves every bucket of ci_total_time_sec as it was.
C21_CountedRunsOfMergedAdd ==
    /\ [](ci_nmessages = 0 => ci_total_time_sec = << >>)
    /\ [][IF CountedRunTaken /\ OfMergedChange
          THEN AddedAt(ci_total_time_sec, ci_change[1].merged_dt[1],
                       SumTotalSec(TakenRun[1].jobs, 1))
          ELSE \A t \in Times :
                   Get(ci_total_time_sec', t) = Get(ci_total_time_sec, t)]_vars

\* a failed run of two seconds of a merged change has been counted
C21_Witness ==
    /\ ci_nmessages = 1
    /\ OfMergedChange
    /\ Get(ci_failure, ci_change[1].updated_dt) = 1
    /\ Get(ci_total_time_sec, ci_change[1].merged_dt[1]) = 2

C29_LongestWithinTotal ==
    \A t \in Times :
        /\ 0 <= Get(ci_longest_time_sec, t)
        /\ Get(ci_longest_time_sec, t) <= Get(ci_total_time_sec, t)
        /\ Get(ci_longest_time_sec, t) > 0 => Get(ci_total_time_sec, t) > 0

\* a run of two jobs, of one and of two seconds, has been counted: the
\* longest is two of three seconds in all
C29_Witness ==
    /\ ci_nmessages = 1
    /\ OfMergedChange
    /\ Get(ci_total_time_sec, ci_change[1].merged_dt[1]) = 3
    /\ Get(ci_longest_time_sec, ci_change[1].merged_dt[1]) = 2

\* ---------------------------------------------------------------------- C23
\* what a message step adds to a promotion dict at the bucket t
PromotionAt(matches, t) ==
    IF /\ matches
       /\ t = ci_message'[1].message_dt
       /\ ci_message'[1].message_dt > start_dt
    THEN 1 ELSE 0

\* C23: a message that begins with the success preamble adds one to
\* promotion_success, one that begins with the failure preamble adds one to
\* promotion_failure, at the bucket of the timestamp of the message itself
\* and at no other, whatever the status, the updated timestamp and the merged
\* timestamp of its change are; no other step changes the two dicts.
C23_PromotionsAtMessageTimestamp ==
    [][IF CiMessageEntered
       THEN \A t \in Times :
                /\ Get(promotion_success', t) = Get(promotion_success, t)
                       + PromotionAt(BeginsWithSuccess(ci_message'[1].text), t)
                /\ Get(promotion_failure', t) = Get(promotion_failure, t)
                       + PromotionAt(BeginsWithFailure(ci_message'[1].text), t)
       ELSE /\ promotion_success' = promotion_success
            /\ promotion_failure' = promotion_failure]_vars

\* a promotion message of an open change, later than the last update of the
\* change, has been counted at its own timestamp
C23_Witness ==
    /\ ci_nmessages = 1
    /\ ci_change[1].status # "MERGED"
    /\ ci_change[1].merged_dt = << >>
    /\ ci_message[1].message_dt # ci_change[1].updated_dt
    /\ BeginsWithSuccess(ci_message[1].text)
    /\ promotion_success = (ci_message[1].message_dt :> 1)

\* ---------------------------------------------------------------------- C30
\* C30: every key of promotion_success and of promotion_failure is later than
\* start_dt; a message whose timestamp is start_dt changes neither dict,
\* while a run of a known status in such a message is classified: it adds one
\* to ci_success or to ci_failure.
C30_PromotionsStrictlyAfterStart ==
    /\ [](\A t \in (DOMAIN promotion_success) \cup (DOMAIN promotion_failure) :
              t > start_dt)
    /\ [][(CiMessageTaken /\ ci_message'[1].message_dt = start_dt) =>
              /\ promotion_success' = promotion_success
              /\ promotion_failure' = promotion_failure
              /\ (TakenRun # << >> /\ KnownStatusTaken) =>
                     Counted(ci_success') + Counted(ci_failure') =
                         Counted(ci_success) + Counted(ci_failure) + 1]_vars

\* with start_dt the latest timestamp there is, a run at start_dt has been
\* counted as a success and a promotion message at start_dt has not been
\* counted
C30_Witness ==
    /\ start_dt = MaxDt
    /\ ci_nmessages = 2
    /\ ci_pc = "messages"
    /\ Counted(ci_success) = 1
    /\ ci_message[1].message_dt = start_dt
    /\ BeginsWithSuccess(ci_message[1].text)
    /\ promotion_success = << >>

\* ---------------------------------------------------------------------- C24
\* d' is d with the value v at the bucket k, all other buckets as they were
WrittenAt(d, k, v) ==
    /\ DOMAIN d' = (DOMAIN d) \cup {k}
    /\ d'[k] = v
    /\ \A t \in (DOMAIN d) \ {k} : d'[t] = d[t]

\* the raw change is merged and carries its merged timestamp
MergedAt(raw) == raw.status = "MERGED" /\ raw.submitted # << >>

\* C24 as stated, for the change gone through last, one that gather keeps
\* (updated at start_dt or later): when parse_change_stats has returned and
\* that change is merged, revisions holds its revision count and lifespan_sec
\* its merged timestamp minus its created timestamp at the bucket of its
\* merged timestamp.
C24_EveryMergedChangeRecorded ==
    (/\ stats_pc = "done"
     /\ change_json # << >>
     /\ MergedAt(change_json[1])
     /\ change_json[1].updated >= start_dt) =>
        LET raw == change_json[1]
            t == raw.submitted[1]
        IN  /\ t \in DOMAIN revisions /\ revisions[t] = raw.revisions
            /\ t \in DOMAIN lifespan_sec /\ lifespan_sec[t] = t - raw.created

\* C24: revisions and lifespan_sec start empty; a change of status MERGED
\* whose merged timestamp is not older than start_dt writes, when it is gone
\* through, its revision count and its merged timestamp minus its created
\* timestamp at the bucket of its merged timestamp, in place of what an
\* earlier change of the same merged timestamp wrote there; a change that is
\* not merged, or merged before start_dt, and every other step leave both
\* dicts as they were.
C24_MergedSinceStartRecorded ==
    /\ [](nparsed = 0 => (revisions = << >> /\ lifespan_sec = << >>))
    /\ [][IF /\ ChangeTaken
             /\ MergedAt(change_json'[1])
             /\ change_json'[1].submitted[1] >= start_dt
          THEN LET raw == change_json'[1]
                   t == raw.submitted[1]
               IN  /\ WrittenAt(revisions, t, raw.revisions)
                   /\ WrittenAt(lifespan_sec, t, t - raw.created)
          ELSE /\ revisions' = revisions
               /\ lifespan_sec' = lifespan_sec]_vars

\* a change of two revisions, created at 0 and merged at 1, not before
\* start_dt, has been gone through
C24_Witness ==
    /\ nparsed = 1
    /\ change_json # << >>
    /\ MergedAt(change_json[1])
    /\ change_json[1].created = 0
    /\ change_json[1].submitted = <<1>>
    /\ change_json[1].revisions = 2
    /\ revisions = (1 :> 2)
    /\ lifespan_sec = (1 :> 1)

\* ---------------------------------------------------------------------- C27
\* the ids of the messages of the raw change whose _revision_number is n, in
\* the order of the raw change
RawMessageIdsOf(raw, n) ==
    LET OfRevision(m) == m.revision_number = n
        mine == SelectSeq(raw.messages, OfRevision)
    IN  [i \in 1..Len(mine) |-> mine[i].id]

\* the ids of the messages a revision yields, in the order it yields them
YieldedIds(revision) ==
    [i \in 1..Len(messages(revision)) |-> messages(revision)[i].message_id]

\* how often the revisions of the change yield the message of the given id
TimesYielded(revs, id) ==
    Cardinality({<<n, i>> \in (DOMAIN revs) \X (1..MaxRawMessages) :
                    /\ i <= Len(messages(revs[n]))
                    /\ messages(revs[n])[i].message_id = id})

\* C27: when GerritChange.__init__ has returned, revisions() yields the
\* revisions in increasing revision number, no two of them with the same
\* number; every message of the raw change is yielded once, by the revision
\* whose number is the _revision_number of the message; and each revision
\* yields its messages in the order the raw change has them.
C27_MessagesOnTheirRevisions ==
    change_pc = "done" =>
        LET raw == raw_change[1]
            yielded == Revisions(change_revisions)
        IN  /\ \A i, j \in 1..Len(yielded) :
                    i < j => yielded[i].number < yielded[j].number
            /\ Len(yielded) = rev_count(change_revisions)
            /\ {yielded[i].number : i \in 1..Len(yielded)} =
                   {raw.revisions[i].number : i \in 1..Len(raw.revisions)}
            /\ \A i \in 1..Len(raw.messages) :
                    TimesYielded(change_revisions, raw.messages[i].id) = 1
            /\ \A i \in 1..Len(yielded) :
                    YieldedIds(yielded[i]) = RawMessageIdsOf(raw, yielded[i].number)

\* a raw change with revision 2 listed before revision 1 and two messages of
\* revision 1, the message 2 before the message 1: revisions() yields 1
\* before 2, and revision 1 yields the message 2 before the message 1
C27_Witness ==
    /\ change_pc = "done"
    /\ Len(raw_change[1].revisions) = 2
    /\ raw_change[1].revisions[1].number = 2
    /\ raw_change[1].revisions[2].number = 1
    /\ Len(Revisions(change_revisions)) = 2
    /\ YieldedIds(Revisions(change_revisions)[1]) = <<2, 1>>
    /\ YieldedIds(Revisions(change_revisions)[2]) = << >>

\* ---------------------------------------------------------------------- C25
\* the step issues a request
RequestIssued == Len(main_requests') > Len(main_requests)

\* what the request just issued asks for
IssuedKind == main_requests'[Len(main_requests')]

\* the step counts an entity in one of the aggregation loops
EntityParsed == main_parsed' > main_parsed

\* C25 as stated: at most one request is outstanding at any time, and no
\* request is issued once the aggregation has gone through an entity.
C25_NoRequestOnceAggregating ==
    /\ [](in_flight <= 1)
    /\ [][RequestIssued => main_parsed = 0]_vars

\* C25: at most one request is outstanding at any time; the page listings of
\* both sources are requested before the aggregation goes through any
\* entity, and the aggregation of the Gerrit changes and parse_pr_ci_stats
\* issue no request; the commit list and the comment list of a PR are
\* requested by parse_pr, inside parse_change_stats, one after the other and
\* both answered before that PR is counted, that is after the Gerrit changes
\* and the PRs before it have been aggregated.
C25_ListingsBeforeAggregation ==
    /\ [](in_flight \in {0, 1})
    /\ [][RequestIssued =>
            /\ Len(main_requests') = Len(main_requests) + 1
            /\ in_flight' = 1
            /\ IssuedKind \in {"changes", "pulls"} =>
                   (main_parsed = 0 /\ main_pc \in {"gather", "gather_github_prs"})
            /\ IssuedKind \in {"commits", "comments"} =>
                   (main_pc = "parse_pr" /\ main_pr' # 0 /\ main_pr' \notin main_taken')
            /\ IssuedKind = "comments" =>
                   main_requests[Len(main_requests)] = "commits"]_vars
    /\ [][EntityParsed =>
            /\ in_flight' = 0
            /\ main_requests' = main_requests
            /\ main_pc = "parse_pr" =>
                   /\ main_requests[Len(main_requests)] = "comments"
                   /\ github_prs'[main_pr].commits # << >>
                   /\ github_prs'[main_pr].comments # << >>]_vars

\* both Gerrit changes have gone through parse_change and parse_ci_stats,
\* one PR has been counted, and the commits of the other PR are asked for
C25_Witness ==
    /\ main_pc = "parse_pr"
    /\ main_parsed = 2 * MaxMainItems + 1
    /\ in_flight = 1
    /\ main_requests[Len(main_requests)] = "commits"
    /\ Cardinality(main_taken) = 1

\* ---------------------------------------------------------------------- C26
\* every entity of the collection is still there after the step, as it was
Kept(d) == \A id \in DOMAIN d : id \in DOMAIN d' /\ d'[id] = d[id]

\* the keys parse_pr puts on a PR
AddedKeys == {"created_dt", "updated_dt", "commits", "comments"}

\* the PR is still there after the step, with what response.json() gave and
\* with the keys put on it so far; keys it did not have may have been put on
OnlyKeysAdded(id) ==
    /\ id \in DOMAIN github_prs'
    /\ github_prs'[id].id = github_prs[id].id
    /\ github_prs'[id].page = github_prs[id].page
    /\ \A key \in AddedKeys :
           github_prs[id][key] # << >> => github_prs'[id][key] = github_prs[id][key]

\* C26 as stated: no step removes, replaces or modifies a change or a PR that
\* has been added to its collection.
C26_StoredNeverChanges ==
    [][Kept(gerrit_changes) /\ Kept(github_prs)]_vars

\* C26: a Gerrit change that has been added is never removed, replaced or
\* modified, neither when its long_id arrives again nor by the aggregation.
\* A PR that has been added is replaced by gather_github_prs when its id is
\* listed again, and removed with all PRs of its project when a page of the
\* listing is answered 404; parse_pr puts the keys created_dt, updated_dt,
\* commits and comments on it and changes nothing else of it; parse_change,
\* parse_ci_stats and parse_pr_ci_stats change nothing.
C26_ChangesKeptPrsRewritten ==
    /\ [][Kept(gerrit_changes)]_vars
    /\ [][\/ Kept(github_prs)
          \/ /\ main_pc = "gather_github_prs"
             /\ main_github[main_no + 1].status_code = 404
             /\ github_prs' = << >>
          \/ /\ main_pc = "gather_github_prs"
             /\ main_github[main_no + 1].status_code = 200
             /\ \A id \in DOMAIN github_prs :
                    /\ id \in DOMAIN github_prs'
                    /\ id # main_github[main_no + 1].id =>
                           github_prs'[id] = github_prs[id]
                    /\ id = main_github[main_no + 1].id =>
                           github_prs'[id] = MainPr(id, main_no + 1)
          \/ /\ main_pc = "parse_pr"
             /\ \A id \in DOMAIN github_prs : OnlyKeysAdded(id)]_vars
    /\ [][(main_pc \in {"parse_change", "parse_ci_stats", "parse_pr_ci_stats"}) =>
              (github_prs' = github_prs)]_vars

\* the change 1 and the PR 1 were both listed on two pages: the change of
\* the first page is the one stored, the PR of the second page is the one
\* stored, and parse_pr has put its keys on it
C26_Witness ==
    /\ main_pc = "done"
    /\ main_gerrit = <<1, 1>>
    /\ gerrit_changes = (1 :> MainChange(1, 1))
    /\ Len(main_github) = 2
    /\ main_github[1].id = 1 /\ main_github[2].id = 1
    /\ DOMAIN github_prs = {1}
    /\ github_prs[1].page = 2
    /\ github_prs[1].commits # << >> /\ github_prs[1].comments # << >>

\* ---------------------------------------------------------------------- C28
\* gather has left its for loop by break
GatherBroke == pc = "endpage" /\ idx <= Len(results)

\* the pages of two PRs of the ids 1 and 2
PagesOfTwo ==
    {<<[id |-> 1, ref |-> a.ref, updated_at |-> a.updated_at],
       [id |-> 2, ref |-> b.ref, updated_at |-> b.updated_at]>> :
        a \in RawPr, b \in RawPr}

\* the PR passes the branch filter and is older than start_dt
EndsProject(pr) ==
    /\ branches = {} \/ pr.ref \in branches
    /\ pr.updated_at < start_dt

\* C28: gather comes to its end, by return or by an exception, and so does
\* each per-project loop of gather_github_prs and gather_github_prs itself,
\* the backend having a last page.  Once the cap or the cutoff triggers in
\* gather nothing is stored, the rest of the page is not scanned and gather
\* returns without another request; once the cutoff triggers in
\* gather_github_prs the rest of the page is not scanned and the loop of the
\* project ends without another request.
C28_GatherTerminates ==
    /\ (pc # "idle") => <>(pc \in {"done", "error"})
    /\ (prs_pc # "idle") => <>(prs_pc = "done")
    /\ [](prs_pc = "request" => <>(prs_pc = "endproject"))
    /\ [][(/\ pc = "scan" /\ PassesFilters(Item) /\ Item.id \notin DOMAIN changes
           /\ (CountReached \/ Item.updated < start_dt))
          => (pc' = "endpage" /\ idx' = idx /\ changes' = changes)]_vars
    /\ [](GatherBroke => [](pc \in {"endpage", "done"} /\ ~ENABLED Request))
    /\ [][GatherBroke => (changes' = changes /\ requests' = requests)]_vars
    /\ [][(prs_pc = "request" /\ project_finished')
          => (prs_pc' = "endproject" /\ status_code' = 200)]_vars
    /\ [][prs_pc = "endproject"
          => (prs_pc' = "project" /\ prs' = prs /\ page_no' = page_no)]_vars
    /\ [](\A page \in PagesOfTwo :
            EndsProject(page[1]) =>
                ScanPrs(page, 1, << >>) = [found |-> << >>, project_finished |-> TRUE])

\* gather returned after the cutoff triggered on the first change of a page
\* of two: the second change was not scanned, nothing is stored, one request
C28_Witness ==
    /\ pc = "done"
    /\ idx = 1 /\ Len(results) = 2
    /\ PassesFilters(Item) /\ Item.updated < start_dt
    /\ PassesFilters(results[2]) /\ results[2].id # Item.id
    /\ changes = << >>
    /\ Len(requests) = 1

====
